---- MODULE Spec2Model ----
(***************************************************************************)
(* Model of the invocation runtime of bedrock_agentcore/runtime/app.py:    *)
(* BedrockAgentCoreApp, its admission semaphore, its worker pool, the      *)
(* "invoke" request path and the SSE stream transcoder.                    *)
(*                                                                         *)
(* The serving context is one asyncio event loop: the code of a request    *)
(* runs without interruption from one suspension point (an await that      *)
(* really suspends) to the next, so each action below is one such run.     *)
(* Worker threads of the ThreadPoolExecutor run beside the loop.           *)
(***************************************************************************)
EXTENDS Integers, Sequences, FiniteSets, TLC

\* ------------------------------------------------------------- bounds
NumReq == 3       \* request slots (concurrent and successive invocations)
MaxVal == 2       \* distinct values a producer may yield
MaxLen == 3       \* length of a producer's item sequence in the stream model
MaxReads == 1     \* reads of the transcoder past its end
MaxTasks == 2     \* tasks registered in one run
MaxTime == 2      \* the clock runs from 0 to MaxTime
NumThreads == 2   \* threads that call add_async_task / complete_async_task
NumWrapped == 2   \* functions wrapped by @app.async_task
MaxDelay == 1     \* seconds by which a sleep may overrun

\* -------------------------------------------------- program constants
SemCapacity == 2  \* asyncio.Semaphore(2)
MaxWorkers == 2   \* ThreadPoolExecutor(max_workers=2)

Req == 1..NumReq
Vals == 1..MaxVal

VARIABLES
    handlers,      \* self.handlers.get("main"): NoHandler or a handler
    sem_value,     \* self._invocation_semaphore._value
    sem_waiters,   \* self._invocation_semaphore._waiters (requests suspended in acquire)
    pool_running,  \* requests whose handler call is running on a worker thread
    pool_queue,    \* handler calls submitted to the executor and not yet started
    pc,            \* where each request's _handle_invocation coroutine stands
    permit,        \* permit[r]: r is inside "async with self._invocation_semaphore"
    admission,     \* branch _invoke_handler took for r: "none", "admitted", "rejected"
    called,        \* number of times the entrypoint handler was called for r
    outcome,       \* what the handler call of r returned or raised
    resp,          \* the response _handle_invocation returned to the transport
    sem_phase,     \* history of the pool: "fresh", "exhausted", "refilled"
    \* ---- stream transcoder (one producer and its transcoder)
    producer,      \* the lazy sequence: its items and the fault that ends it, if any
    cursor,        \* items taken from the producer so far
    tmode,         \* "sync" (_sync_stream_with_error_handling) or "async"
    tstate,        \* the transcoder generator: "loop", "except", "finished", "raised"
    frames,        \* frames emitted so far, in emission order
    reads,         \* reads of the transcoder after it finished
    \* ---- health status and task registry
    ping_handler,             \* self._ping_handler: NoPingHandler or a resolver
    forced_ping_status,       \* self._forced_ping_status: None or a status
    active_tasks,             \* self._active_tasks: the task records in the dict
    next_task,                \* the next fresh task id (uuid4)
    completed,                \* history: ids of the tasks completed so far
    now,                      \* time.time()
    last_known_status,        \* self._last_known_status ("unset": no attribute)
    last_status_update_time,  \* self._last_status_update_time
    status_out,               \* what the last get_current_ping_status() returned
    ping_resp,                \* the response of the last GET /ping
    \* ---- calls of other threads, one step per access to the shared state
    rpc,                      \* get_current_ping_status in flight: "idle", "tested"
    r_test,                   \* what its test of line 144 read
    seen,                     \* history: statuses of the states it ran through
    snap_pc,                  \* get_async_task_info in flight: "idle", "iter", "count"
    snap_size,                \* size of the dict when its iterator was created
    snap_jobs,                \* ids of the tasks appended to running_jobs
    snap_out,                 \* what the last get_async_task_info() returned
    \* ---- debug directives and handler arguments
    debug,                    \* self.debug
    handler_sig,              \* the signature of the registered handler
    payload,                  \* payload[r]: the body of request r
    args,                     \* args[r]: the arguments the handler is called with
    debug_body,               \* debug_body[r]: the body of a debug response to r
    \* ---- functions wrapped by @app.async_task
    wpc,                      \* wpc[w]: "idle", "running", "returned", "raised"
    wtask,                    \* wtask[w]: the task id its wrapper holds
    \* ---- threads that call add_async_task / complete_async_task
    task_lock,                \* self._task_counter_lock: 0 or the thread that holds it
    tpc,                      \* tpc[t]: where thread t stands in its call
    targ,                     \* targ[t]: the id thread t passed to complete_async_task
    tret,                     \* tret[t]: the id the last add_async_task of t returned
    cret,                     \* cret[t]: what the last complete_async_task of t returned
    adds_done,                \* history: add_async_task calls that have returned
    found_true,               \* history: found_true[id]: completions of id that returned True
    \* ---- request headers and contexts
    headers,                  \* headers[r]: the headers of request r
    context,                  \* context[r]: the RequestContext built for r
    \* ---- IdentityClient.get_token and the default token poller
    ipc,                      \* where get_token / poll_for_token stands
    wall,                     \* time.time(), in seconds
    start_time,               \* start_time of poll_for_token
    force_authentication,     \* argument of get_token
    on_auth_url,              \* argument of get_token: "none", "sync" or "async"
    token_poller,             \* argument of get_token: a custom poller is given
    response,                 \* the keys of the initial response
    req_force,                \* req["forceAuthentication"]: "absent", "true", "false"
    initial_force,            \* history: forceAuthentication of the initial request
    notified,                 \* history: calls of on_auth_url
    sleeps,                   \* history: sleeps of the poller
    polls,                    \* history: polling requests made
    forced_polls,             \* history: polling requests with forceAuthentication true
    poll_resp,                \* resp of the last poll
    token_at                  \* history: seconds since start_time at the poll that
                              \* returned the token

reqvars == <<handlers, sem_value, sem_waiters, pool_running, pool_queue, pc, permit,
             admission, called, outcome, resp, sem_phase>>
streamvars == <<producer, cursor, tmode, tstate, frames, reads>>
registryvars == <<active_tasks, next_task, completed>>
statusvars == <<last_known_status, last_status_update_time, status_out>>
threadvars == <<rpc, r_test, seen, snap_pc, snap_size, snap_jobs, snap_out>>
dispatchvars == <<debug, handler_sig, payload, args, debug_body, headers, context>>
identityvars == <<ipc, wall, start_time, force_authentication, on_auth_url, token_poller,
                  response, req_force, initial_force, notified, sleeps, polls,
                  forced_polls, poll_resp, token_at>>
taskvars == <<wpc, wtask, task_lock, tpc, targ, tret, cret, adds_done, found_true>>
healthvars == <<ping_handler, forced_ping_status, active_tasks, next_task, completed, now,
                last_known_status, last_status_update_time, status_out, ping_resp,
                rpc, r_test, seen, snap_pc, snap_size, snap_jobs, snap_out>>
vars == <<handlers, sem_value, sem_waiters, pool_running, pool_queue, pc, permit,
          admission, called, outcome, resp, sem_phase,
          producer, cursor, tmode, tstate, frames, reads,
          ping_handler, forced_ping_status, active_tasks, next_task, completed, now,
          last_known_status, last_status_update_time, status_out, ping_resp,
          rpc, r_test, seen, snap_pc, snap_size, snap_jobs, snap_out,
          debug, handler_sig, payload, args, debug_body,
          wpc, wtask, task_lock, tpc, targ, tret, cret, adds_done, found_true,
          headers, context,
          ipc, wall, start_time, force_authentication, on_auth_url, token_poller,
          response, req_force, initial_force, notified, sleeps, polls,
          forced_polls, poll_resp, token_at>>

\* ------------------------------------------------------------ values
NoHandler == [registered |-> FALSE, coop |-> FALSE]
\* a registered entrypoint: coop = asyncio.iscoroutinefunction(handler)
Handlers == {[registered |-> TRUE, coop |-> c] : c \in BOOLEAN}

NoOutcome == [kind |-> "none", v |-> 0]
\* the call of the handler for request r ends by returning a single value
\* (computed from r's own payload, which carries r), returning a generator or
\* an async generator object, or raising: "raise" an Exception such as
\* ValueError, "raisejson" a json.JSONDecodeError (json.loads of text that is
\* not JSON, inside the handler). A single value is "value" when json.dumps
\* renders it and json.loads of the text gives it back (a dict with string keys,
\* a list, a string, a number), and "object" when json.dumps rejects it (a set,
\* bytes, a datetime, an instance of a class, a float NaN).
Outcomes(r) == {[kind |-> k, v |-> r] : k \in {"value", "object"}}
               \cup {[kind |-> k, v |-> 0] : k \in {"gen", "asyncgen", "raise", "raisejson"}}
\* the JSONResponse object _invoke_handler returns when the semaphore is locked
BusyResult == [kind |-> "response", v |-> 503]
\* a coroutine handler that reaches a real suspension point instead of finishing
Suspend == [kind |-> "suspend", v |-> 0]

NoResp == [status |-> 0, error |-> "", value |-> 0]

\* --------------------------------------------------------- responses
\* Starlette's JSONResponse(content) renders content with json.dumps in its
\* constructor: a handler's single value is JSON; a JSONResponse object is not
JsonSerializable(content) == content.kind = "value"
\* JSONResponse.render: the JSON text of a serializable content; and what a
\* client gets when it decodes that text
JsonDumps(content) == [json |-> content.v]
JsonLoads(text) == text.json

BusyResponse ==
    [status |-> 503, error |-> "Server busy - maximum concurrent requests reached", value |-> 0]
InvalidJsonResponse == [status |-> 400, error |-> "Invalid JSON", value |-> 0]
NoEntrypointResponse == [status |-> 500, error |-> "No entrypoint defined", value |-> 0]
StreamingResponse == [status |-> 200, error |-> "", value |-> 0]

\* _handle_invocation from the return of _invoke_handler to its own return:
\* o is what _invoke_handler returned (or raised, kind "raise")
HandlerResponse(o) ==
    IF o.kind = "raise"
    THEN [status |-> 500, error |-> "handler fault", value |-> 0]
    ELSE IF o.kind = "raisejson"
    THEN \* caught by "except json.JSONDecodeError" of lines 310-313
         InvalidJsonResponse
    ELSE IF o.kind \in {"gen", "asyncgen"}
    THEN StreamingResponse
    ELSE IF JsonSerializable(o)
    THEN [status |-> 200, error |-> "", value |-> JsonLoads(JsonDumps(o))]
    ELSE IF o.kind = "object"
    THEN \* JSONResponse(result) raises TypeError, caught by "except Exception"
         [status |-> 500, error |-> "Object of type set is not JSON serializable",
          value |-> 0]
    ELSE \* JSONResponse(result) raises TypeError, caught by "except Exception"
         [status |-> 500, error |-> "Object of type JSONResponse is not JSON serializable",
          value |-> 0]

\* after the response is returned: a streaming response is still to be iterated
PcAfter(o) == IF o.kind \in {"gen", "asyncgen"} THEN "stream" ELSE "done"

\* --------------------------------------------------------- semaphore
\* asyncio.Semaphore.locked(): no permit can be acquired immediately
LockedNever(v, w) == FALSE       \* variant: the saturation check is missing
LockedOffByOne(v, w) == v <= 1   \* variant: rejects while one permit is still free
Locked(v, w) == v = 0 \/ w # <<>>
\* "async with semaphore" enters through acquire(), which suspends only when
\* no permit is free, and otherwise takes one on the spot
AcquireBlocks(v) == v <= 0
SemAcquireNoTake(v) == v         \* variant: entering takes no permit
SemAcquire(v) == v - 1
\* leaving the "async with" block calls release() once. release() would also
\* wake the first waiter; the code checks locked() before it enters, and a request
\* that did come to wait (pc "waiting") is not followed any further here.
SemReleaseTwice(v) == v + 2      \* variant: the permit is released twice
SemReleaseNone(v) == v           \* variant: the permit is never given back
SemRelease(v) == v + 1

\* history of the pool, for stating what happens after it was exhausted
Phase(v) ==
    IF v = 0 THEN "exhausted"
    ELSE IF sem_phase = "exhausted" /\ v = SemCapacity THEN "refilled"
    ELSE sem_phase

\* the branch one run of _handle_invocation takes after the body is read
BranchNoEntryCheck(ok) ==   \* variant: the test of line 288 is missing
    IF ~ok THEN "badjson"
    ELSE IF Locked(sem_value, sem_waiters) THEN "busy"
    ELSE IF AcquireBlocks(sem_value) THEN "wait"
    ELSE IF handlers.coop THEN "coro"
    ELSE "executor"
BranchJsonUnchecked(ok) ==   \* variant: a malformed body is let through
    IF ~handlers.registered THEN "noentry"
    ELSE IF Locked(sem_value, sem_waiters) THEN "busy"
    ELSE IF AcquireBlocks(sem_value) THEN "wait"
    ELSE IF handlers.coop THEN "coro"
    ELSE "executor"
BranchAllOnPool(ok) ==   \* variant: every handler is sent to the executor
    IF ~ok THEN "badjson"
    ELSE IF ~handlers.registered THEN "noentry"
    ELSE IF Locked(sem_value, sem_waiters) THEN "busy"
    ELSE IF AcquireBlocks(sem_value) THEN "wait"
    ELSE "executor"
Branch(ok) ==
    IF ~ok THEN "badjson"
    ELSE IF ~handlers.registered THEN "noentry"
    ELSE IF Locked(sem_value, sem_waiters) THEN "busy"
    ELSE IF AcquireBlocks(sem_value) THEN "wait"
    ELSE IF handlers.coop THEN "coro"
    ELSE "executor"

\* the free permits after one run of _handle_invocation that took branch b;
\* inline: the handler was called on the loop and finished without suspending
SemAfterRejectTakes(b, inline, v) ==   \* variant: a rejection costs a permit
    CASE inline -> SemRelease(SemAcquire(v))
      [] b \in {"coro", "executor", "busy"} -> SemAcquire(v)
      [] OTHER -> v
SemAfter(b, inline, v) ==
    CASE inline -> SemRelease(SemAcquire(v))
      [] b \in {"coro", "executor"} -> SemAcquire(v)
      [] OTHER -> v

\* ------------------------------------------------------------ actions
\* app.entrypoint(func): registers the single main handler
Entrypoint(h) ==
    /\ handlers # h
    /\ handlers' = h
    /\ UNCHANGED <<sem_value, sem_waiters, pool_running, pool_queue, pc, permit,
                   admission, called, outcome, resp, sem_phase>>
    /\ UNCHANGED <<streamvars, healthvars, dispatchvars, taskvars, identityvars>>

\* POST /invocations arrives: _handle_invocation runs to "await request.json()"
Arrive(r) ==
    /\ pc[r] = "idle"
    /\ pc' = [pc EXCEPT ![r] = "body"]
    /\ UNCHANGED <<handlers, sem_value, sem_waiters, pool_running, pool_queue, permit,
                   admission, called, outcome, resp, sem_phase>>
    /\ UNCHANGED <<streamvars, healthvars, dispatchvars, taskvars, identityvars>>

\* _handle_invocation resumes with the body read and runs, through
\* _invoke_handler, to its return or to the next suspension point.
\*   ok: the body is well-formed JSON
\*   o:  what a cooperative handler does when called inline: finish with an
\*       outcome before suspending, or suspend
Invocation(r, ok, o) ==
        LET b == Branch(ok)
            inline == b = "coro" /\ o # Suspend
            free == Cardinality(pool_running) < MaxWorkers
        IN
        /\ admission' = [admission EXCEPT ![r] =
                CASE b = "busy" -> "rejected"
                  [] b \in {"coro", "executor"} -> "admitted"
                  [] OTHER -> @]
        /\ sem_value' = SemAfter(b, inline, sem_value)
        /\ sem_waiters' = IF b = "wait" THEN Append(sem_waiters, r) ELSE sem_waiters
        /\ permit' = [permit EXCEPT ![r] = b \in {"coro", "executor"} /\ ~inline]
        /\ called' = [called EXCEPT ![r] =
                IF b = "coro" \/ (b = "executor" /\ free) THEN @ + 1 ELSE @]
        /\ pool_running' = IF b = "executor" /\ free THEN pool_running \cup {r}
                           ELSE pool_running
        /\ pool_queue' = IF b = "executor" /\ ~free THEN Append(pool_queue, r)
                         ELSE pool_queue
        /\ outcome' = [outcome EXCEPT ![r] = IF inline THEN o ELSE @]
        /\ resp' = [resp EXCEPT ![r] =
                CASE b = "badjson" -> InvalidJsonResponse
                  [] b = "noentry" -> NoEntrypointResponse
                  [] b = "busy" -> HandlerResponse(BusyResult)
                  [] inline -> HandlerResponse(o)
                  [] OTHER -> @]
        /\ pc' = [pc EXCEPT ![r] =
                CASE b \in {"badjson", "noentry", "busy"} -> "done"
                  [] b = "wait" -> "waiting"
                  [] inline -> PcAfter(o)
                  [] b = "coro" -> "coro"
                  [] OTHER -> "executor"]
        /\ sem_phase' = Phase(sem_value')
        /\ UNCHANGED handlers

HandleInvocation(r) ==
    /\ pc[r] = "body"
    /\ \E ok \in BOOLEAN, o \in Outcomes(r) \cup {Suspend} : Invocation(r, ok, o)
    /\ UNCHANGED <<streamvars, healthvars, dispatchvars, taskvars, identityvars>>

\* a worker thread finishes the blocking handler call of r (returns or raises)
\* and takes the next queued call, if any
WorkerFinish(r) ==
    /\ r \in pool_running
    /\ \E o \in Outcomes(r) :
        outcome' = [outcome EXCEPT ![r] = o]
    /\ pool_running' = (pool_running \ {r})
            \cup (IF pool_queue # <<>> THEN {Head(pool_queue)} ELSE {})
    /\ called' = IF pool_queue # <<>>
                 THEN [called EXCEPT ![Head(pool_queue)] = @ + 1] ELSE called
    /\ pool_queue' = IF pool_queue # <<>> THEN Tail(pool_queue) ELSE pool_queue
    /\ UNCHANGED <<handlers, sem_value, sem_waiters, pc, permit, admission, resp, sem_phase>>
    /\ UNCHANGED <<streamvars, healthvars, dispatchvars, taskvars, identityvars>>

\* the loop resumes r with the executor future done: _invoke_handler leaves the
\* "async with" block and _handle_invocation builds the response
ResumeExecutor(r) ==
    /\ pc[r] = "executor"
    /\ outcome[r] # NoOutcome
    /\ sem_value' = SemRelease(sem_value)
    /\ sem_phase' = Phase(sem_value')
    /\ permit' = [permit EXCEPT ![r] = FALSE]
    /\ resp' = [resp EXCEPT ![r] = HandlerResponse(outcome[r])]
    /\ pc' = [pc EXCEPT ![r] = PcAfter(outcome[r])]
    /\ UNCHANGED <<handlers, sem_waiters, pool_running, pool_queue, admission, called,
                   outcome>>
    /\ UNCHANGED <<streamvars, healthvars, dispatchvars, taskvars, identityvars>>

\* a suspended cooperative handler is resumed and finishes (returns or raises)
ResumeCoro(r) ==
    /\ pc[r] = "coro"
    /\ \E o \in Outcomes(r) :
        /\ outcome' = [outcome EXCEPT ![r] = o]
        /\ resp' = [resp EXCEPT ![r] = HandlerResponse(o)]
        /\ pc' = [pc EXCEPT ![r] = PcAfter(o)]
    /\ sem_value' = SemRelease(sem_value)
    /\ sem_phase' = Phase(sem_value')
    /\ permit' = [permit EXCEPT ![r] = FALSE]
    /\ UNCHANGED <<handlers, sem_waiters, pool_running, pool_queue, admission, called>>
    /\ UNCHANGED <<streamvars, healthvars, dispatchvars, taskvars, identityvars>>

\* the transport iterates the StreamingResponse of r until the stream
\* completes or raises
StreamEnd(r) ==
    /\ pc[r] = "stream"
    /\ pc' = [pc EXCEPT ![r] = "done"]
    /\ UNCHANGED <<handlers, sem_value, sem_waiters, pool_running, pool_queue, permit,
                   admission, called, outcome, resp, sem_phase>>
    /\ UNCHANGED <<streamvars, healthvars, dispatchvars, taskvars, identityvars>>

\* -------------------------------------------------- stream transcoder
\* A produced item: its value and what serializing it does.
\*   "json":    json.dumps(chunk) succeeds
\*   "str":     json.dumps(chunk) raises TypeError/ValueError, str(chunk) works
\*   "typeerr": so does json.dumps(chunk), and json.dumps(str(chunk)) raises
\*              TypeError/ValueError as well (e.g. __str__ returns a non-string)
\*   "other":   serializing raises another exception (RecursionError of
\*              json.dumps on deep nesting, a __str__ that raises RuntimeError)
SerKinds == {"json", "str", "typeerr", "other"}
Items == [kind : {"item"}, v : Vals, ser : SerKinds, error : {""}, etype : {""}]

\* an exception: type(e).__name__ and str(e). A producer's fault is an instance
\* of Exception, the class both transcoders catch; KeyboardInterrupt, SystemExit
\* and task cancellation are signals to the process, not faults of the producer.
NoFault == [type |-> "", msg |-> ""]
Faults == {[type |-> "ValueError", msg |-> "bad value"],
           [type |-> "RuntimeError", msg |-> "boom"]}
SerFault == [type |-> "RecursionError", msg |-> "maximum recursion depth exceeded"]

\* type(chunk).__name__
TypeName(chunk) == IF chunk.ser = "json" THEN "dict" ELSE "Opaque"

NoFrame == [tag |-> "none", repr |-> "", v |-> 0, error |-> "", etype |-> ""]

\* the error_event dict both transcoders build from a caught exception e
ErrorEvent(e) ==
    [kind |-> "errevent", v |-> 0, ser |-> "json", error |-> e.msg, etype |-> e.type]

\* _convert_to_sse(chunk): the frame "data: <json text>\n\n", or the exception
\* that leaves the function. repr tells what the JSON text encodes: the chunk
\* itself ("json") or its textual representation ("str").
ConvertToSse(chunk) ==
    CASE chunk.ser = "json" ->
            [raised |-> FALSE, fault |-> NoFault,
             frame |-> [tag |-> IF chunk.kind = "errevent" THEN "error" ELSE "data",
                        repr |-> "json", v |-> chunk.v, error |-> chunk.error,
                        etype |-> chunk.etype]]
      [] chunk.ser = "str" ->
            [raised |-> FALSE, fault |-> NoFault,
             frame |-> [tag |-> "data", repr |-> "str", v |-> chunk.v, error |-> "",
                        etype |-> ""]]
      [] chunk.ser = "typeerr" ->
            [raised |-> FALSE, fault |-> NoFault,
             frame |-> [tag |-> "serfail", repr |-> "json", v |-> 0,
                        error |-> "Serialization failed", etype |-> TypeName(chunk)]]
      [] OTHER ->
            [raised |-> TRUE, fault |-> SerFault, frame |-> NoFrame]

\* next(generator) / generator.__anext__() with cur items already taken
ProducerNext(cur) ==
    IF cur < Len(producer.items)
    THEN [t |-> "item", item |-> producer.items[cur + 1], fault |-> NoFault]
    ELSE IF producer.fault # NoFault
    THEN [t |-> "raise", item |-> ErrorEvent(NoFault), fault |-> producer.fault]
    ELSE [t |-> "stop", item |-> ErrorEvent(NoFault), fault |-> NoFault]

\* One resumption of the generator _sync_stream_with_error_handling(generator),
\* standing at ts with cur items taken: the frames it yields (none or one), where
\* it stands next and how many items are taken. "loop": before the first item or
\* at the yield of the for loop; "except": at the yield of the except block.
SyncStreamNoExcept(ts, cur) ==   \* variant: the try/except is missing
    IF ts = "loop"
    THEN LET n == ProducerNext(cur) IN
         CASE n.t = "item" /\ ~ConvertToSse(n.item).raised ->
                 [tstate |-> "loop", emit |-> <<ConvertToSse(n.item).frame>>,
                  cursor |-> cur + 1]
           [] n.t = "item" -> [tstate |-> "raised", emit |-> <<>>, cursor |-> cur + 1]
           [] n.t = "raise" -> [tstate |-> "raised", emit |-> <<>>, cursor |-> cur]
           [] OTHER -> [tstate |-> "finished", emit |-> <<>>, cursor |-> cur]
    ELSE [tstate |-> ts, emit |-> <<>>, cursor |-> cur]
SyncStreamWithErrorHandling(ts, cur) ==
    IF ts = "loop"
    THEN LET n == ProducerNext(cur) IN
         CASE n.t = "item" ->
                 LET c == ConvertToSse(n.item) IN
                 IF c.raised
                 THEN [tstate |-> "except",
                       emit |-> <<ConvertToSse(ErrorEvent(c.fault)).frame>>,
                       cursor |-> cur + 1]
                 ELSE [tstate |-> "loop", emit |-> <<c.frame>>, cursor |-> cur + 1]
           [] n.t = "raise" ->
                 [tstate |-> "except",
                  emit |-> <<ConvertToSse(ErrorEvent(n.fault)).frame>>,
                  cursor |-> cur]
           [] OTHER -> [tstate |-> "finished", emit |-> <<>>, cursor |-> cur]
    ELSE \* resumed at the yield of the except block, or read after its end
         [tstate |-> "finished", emit |-> <<>>, cursor |-> cur]

\* One resumption of the async generator _stream_with_error_handling(generator)
StreamWithErrorHandlingAhead(ts, cur) ==   \* variant: an item is taken and kept back
    IF ts = "loop"
    THEN LET n == ProducerNext(cur) IN
         CASE n.t = "item" -> [tstate |-> "loop", emit |-> <<>>, cursor |-> cur + 1]
           [] n.t = "raise" ->
                 [tstate |-> "except",
                  emit |-> <<ConvertToSse(ErrorEvent(n.fault)).frame>>,
                  cursor |-> cur]
           [] OTHER -> [tstate |-> "finished", emit |-> <<>>, cursor |-> cur]
    ELSE [tstate |-> "finished", emit |-> <<>>, cursor |-> cur]
StreamWithErrorHandling(ts, cur) ==
    IF ts = "loop"
    THEN LET n == ProducerNext(cur) IN
         CASE n.t = "item" ->
                 LET c == ConvertToSse(n.item) IN
                 IF c.raised
                 THEN [tstate |-> "except",
                       emit |-> <<ConvertToSse(ErrorEvent(c.fault)).frame>>,
                       cursor |-> cur + 1]
                 ELSE [tstate |-> "loop", emit |-> <<c.frame>>, cursor |-> cur + 1]
           [] n.t = "raise" ->
                 [tstate |-> "except",
                  emit |-> <<ConvertToSse(ErrorEvent(n.fault)).frame>>,
                  cursor |-> cur]
           [] OTHER -> [tstate |-> "finished", emit |-> <<>>, cursor |-> cur]
    ELSE [tstate |-> "finished", emit |-> <<>>, cursor |-> cur]

\* the consumer asks the transcoder for its next frame; asking a transcoder
\* that has finished is a read past the end
TranscoderRead(step) ==
    /\ tstate # "raised"
    /\ tstate = "finished" => reads < MaxReads
    /\ tstate' = step.tstate
    /\ frames' = frames \o step.emit
    /\ cursor' = step.cursor
    /\ reads' = IF tstate = "finished" THEN reads + 1 ELSE reads
    /\ UNCHANGED <<producer, tmode>>
    /\ UNCHANGED <<reqvars, healthvars, dispatchvars, taskvars, identityvars>>

SyncStreamNext ==
    /\ tmode = "sync"
    /\ TranscoderRead(SyncStreamWithErrorHandling(tstate, cursor))

AsyncStreamNext ==
    /\ tmode = "async"
    /\ TranscoderRead(StreamWithErrorHandling(tstate, cursor))

\* every sequence over S of length at most n
RECURSIVE SeqsUpTo(_, _)
SeqsUpTo(S, n) ==
    IF n = 0 THEN {<<>>}
    ELSE LET shorter == SeqsUpTo(S, n - 1) IN
         shorter \cup {Append(q, x) : q \in shorter, x \in S}

Producers == [items : SeqsUpTo(Items, MaxLen), fault : {NoFault} \cup Faults]

\* ------------------------------------------------ health and task registry
None == "None"
\* the members of PingStatus, by their values
HEALTHY == "Healthy"
HEALTHY_BUSY == "HealthyBusy"
PingStatus == {HEALTHY, HEALTHY_BUSY}
\* an object that is neither a str nor a PingStatus (an int, a dict)
NotAStatus == "NotAStatus"
\* an exception leaves the function
Raised == "Raised"

\* What the function registered with @app.ping does when it is called:
\*   "status": returns the member v of PingStatus
\*   "str":    returns the string value of the member v
\*   "badstr": returns a string that is no value of PingStatus
\*   "raise":  raises an Exception
\*   "none":   returns None
\*   "object": returns an object that is neither a string nor a PingStatus
NoPingHandler == [kind |-> "unset", v |-> None]
PingHandlers ==
    {[kind |-> k, v |-> s] : k \in {"status", "str"}, s \in PingStatus}
        \cup {[kind |-> k, v |-> None] : k \in {"badstr", "raise", "none", "object"}}

\* lines 146-156: current_status after the elif branch with handler h
CustomStatusNoExcept(h) ==   \* variant: the try/except is missing
    CASE h.kind \in {"status", "str"} -> h.v
      [] h.kind = "object" -> NotAStatus
      [] h.kind \in {"raise", "badstr"} -> Raised
      [] OTHER -> None
CustomStatus(h) ==
    CASE h.kind \in {"status", "str"} -> h.v      \* PingStatus(result) or result
      [] h.kind = "object" -> NotAStatus           \* current_status = result
      [] OTHER -> None   \* no handler, None returned, or the exception was logged

\* line 159
AutomaticStatusIdle(tasks) == HEALTHY   \* variant: the registry is not consulted
AutomaticStatus(tasks) == IF tasks # {} THEN HEALTHY_BUSY ELSE HEALTHY

\* lines 142-159: the status get_current_ping_status computes, where test is the
\* value of _forced_ping_status read by the test of line 144 and f the value
\* read by the assignment of line 145
CurrentStatusHandlerFirst(test, f, h, tasks) ==   \* variant: resolver before override
    LET cur == IF CustomStatus(h) # None THEN CustomStatus(h)
               ELSE IF test # None THEN f ELSE None
    IN  IF cur = None THEN AutomaticStatus(tasks) ELSE cur
CurrentStatus(test, f, h, tasks) ==
    LET cur == IF test # None THEN f ELSE CustomStatus(h)
    IN  IF cur = None THEN AutomaticStatus(tasks) ELSE cur

\* lines 160-162: _last_status_update_time after a call that computed st
StatusUpdateTimeAlways(known, st, t, clock) == clock   \* variant: no comparison
StatusUpdateTime(known, st, t, clock) ==
    IF known = "unset" \/ known # st THEN clock ELSE t

\* lines 319-326: the response of _handle_ping when get_current_ping_status
\* returned st and left the timestamp t; st.value raises for a non-status
NoPing == [code |-> 0, status |-> None, time_of_last_update |-> 0]
PingResponseNoExcept(st, t, clock) ==   \* variant: the try/except is missing
    IF st \in PingStatus
    THEN [code |-> 200, status |-> st, time_of_last_update |-> t]
    ELSE [code |-> 500, status |-> None, time_of_last_update |-> 0]
PingResponse(st, t, clock) ==
    IF st \in PingStatus
    THEN [code |-> 200, status |-> st, time_of_last_update |-> t]
    ELSE [code |-> 200, status |-> HEALTHY, time_of_last_update |-> clock]

\* lines 166-168 and 170-172: _forced_ping_status after the call
ForcedAfterForceKeep(f, status) == IF f = None THEN status ELSE f  \* variant: first wins
ForcedAfterForce(f, status) == status
ForcedAfterClear(f) == None

TaskIds == 1..MaxTasks
TaskInfo(id, clock) == [id |-> id, start_time |-> clock]
Ids(tasks) == {t.id : t \in tasks}

\* history: the status an uninterrupted get_current_ping_status() would return
\* in the state with override f, resolver h and registry tasks is added to the
\* statuses the call in flight has run through
Observed(f, h, tasks) ==
    IF rpc = "idle" THEN seen ELSE seen \cup {CurrentStatus(f, f, h, tasks)}

\* @app.ping: registers the custom resolver
Ping(h) ==
    /\ ping_handler # h
    /\ ping_handler' = h
    /\ seen' = Observed(forced_ping_status, h, active_tasks)
    /\ UNCHANGED <<forced_ping_status, registryvars, now, statusvars, ping_resp>>
    /\ UNCHANGED <<rpc, r_test, snap_pc, snap_size, snap_jobs, snap_out>>
    /\ UNCHANGED <<reqvars, streamvars, dispatchvars, taskvars, identityvars>>

\* force_ping_status(status)
ForcePingStatus(status) ==
    /\ forced_ping_status' = ForcedAfterForce(forced_ping_status, status)
    /\ seen' = Observed(forced_ping_status', ping_handler, active_tasks)
    /\ UNCHANGED <<ping_handler, registryvars, now, statusvars, ping_resp>>
    /\ UNCHANGED <<rpc, r_test, snap_pc, snap_size, snap_jobs, snap_out>>
    /\ UNCHANGED <<reqvars, streamvars, dispatchvars, taskvars, identityvars>>

\* clear_forced_ping_status()
ClearForcedPingStatus ==
    /\ forced_ping_status' = ForcedAfterClear(forced_ping_status)
    /\ seen' = Observed(forced_ping_status', ping_handler, active_tasks)
    /\ UNCHANGED <<ping_handler, registryvars, now, statusvars, ping_resp>>
    /\ UNCHANGED <<rpc, r_test, snap_pc, snap_size, snap_jobs, snap_out>>
    /\ UNCHANGED <<reqvars, streamvars, dispatchvars, taskvars, identityvars>>

\* add_async_task(name): under the lock, a fresh id is entered into the dict
AddAsyncTask ==
    /\ next_task <= MaxTasks
    /\ active_tasks' = active_tasks \cup {TaskInfo(next_task, now)}
    /\ next_task' = next_task + 1
    /\ seen' = Observed(forced_ping_status, ping_handler, active_tasks')
    /\ UNCHANGED <<ping_handler, forced_ping_status, completed, now, statusvars, ping_resp>>
    /\ UNCHANGED <<rpc, r_test, snap_pc, snap_size, snap_jobs, snap_out>>
    /\ UNCHANGED <<reqvars, streamvars, dispatchvars, taskvars, identityvars>>

\* complete_async_task(id): under the lock, the entry is popped if it is there
CompleteAsyncTask(id) ==
    /\ active_tasks' = {t \in active_tasks : t.id # id}
    /\ completed' = IF id \in Ids(active_tasks) THEN completed \cup {id} ELSE completed
    /\ seen' = Observed(forced_ping_status, ping_handler, active_tasks')
    /\ UNCHANGED <<ping_handler, forced_ping_status, next_task, now, statusvars, ping_resp>>
    /\ UNCHANGED <<rpc, r_test, snap_pc, snap_size, snap_jobs, snap_out>>
    /\ UNCHANGED <<reqvars, streamvars, dispatchvars, taskvars, identityvars>>

\* the clock advances
Tick ==
    /\ now < MaxTime
    /\ now' = now + 1
    /\ UNCHANGED <<ping_handler, forced_ping_status, registryvars, statusvars, ping_resp>>
    /\ UNCHANGED threadvars
    /\ UNCHANGED <<reqvars, streamvars, dispatchvars, taskvars, identityvars>>

\* get_current_ping_status(), run without interruption
GetCurrentPingStatus ==
    /\ rpc = "idle"
    /\ LET st == CurrentStatus(forced_ping_status, forced_ping_status, ping_handler,
                               active_tasks)
       IN /\ status_out' = st
          /\ last_status_update_time' =
                StatusUpdateTime(last_known_status, st, last_status_update_time, now)
          /\ last_known_status' = st
    /\ UNCHANGED <<ping_handler, forced_ping_status, registryvars, now, ping_resp>>
    /\ UNCHANGED threadvars
    /\ UNCHANGED <<reqvars, streamvars, dispatchvars, taskvars, identityvars>>

\* GET /ping: _handle_ping, run without interruption
HandlePing ==
    /\ rpc = "idle"
    /\ LET st == CurrentStatus(forced_ping_status, forced_ping_status, ping_handler,
                               active_tasks)
           t == StatusUpdateTime(last_known_status, st, last_status_update_time, now)
       IN /\ status_out' = st
          /\ last_status_update_time' = t
          /\ last_known_status' = st
          /\ ping_resp' = PingResponse(st, t, now)
    /\ UNCHANGED <<ping_handler, forced_ping_status, registryvars, now>>
    /\ UNCHANGED threadvars
    /\ UNCHANGED <<reqvars, streamvars, dispatchvars, taskvars, identityvars>>

\* get_current_ping_status() on a thread that other threads interleave with:
\* the test of line 144 ...
GetCurrentPingStatusTest ==
    /\ rpc = "idle"
    /\ rpc' = "tested"
    /\ r_test' = forced_ping_status
    /\ seen' = {CurrentStatus(forced_ping_status, forced_ping_status, ping_handler,
                              active_tasks)}
    /\ UNCHANGED <<ping_handler, forced_ping_status, registryvars, now, statusvars, ping_resp>>
    /\ UNCHANGED <<snap_pc, snap_size, snap_jobs, snap_out>>
    /\ UNCHANGED <<reqvars, streamvars, dispatchvars, taskvars, identityvars>>

\* ... and lines 145-164, which read _forced_ping_status again
GetCurrentPingStatusRest ==
    /\ rpc = "tested"
    /\ rpc' = "idle"
    /\ LET st == CurrentStatus(r_test, forced_ping_status, ping_handler, active_tasks)
       IN /\ status_out' = st
          /\ last_status_update_time' =
                StatusUpdateTime(last_known_status, st, last_status_update_time, now)
          /\ last_known_status' = st
    /\ UNCHANGED <<ping_handler, forced_ping_status, registryvars, now, ping_resp>>
    /\ UNCHANGED <<r_test, seen, snap_pc, snap_size, snap_jobs, snap_out>>
    /\ UNCHANGED <<reqvars, streamvars, dispatchvars, taskvars, identityvars>>

\* get_async_task_info() on a thread that other threads interleave with. It
\* takes no lock. Line 178: the iterator over self._active_tasks.values() ...
NoSnapshot == [raised |-> FALSE, active_count |-> 0, running_jobs |-> {}]
GetAsyncTaskInfoIter ==
    /\ snap_pc = "idle"
    /\ snap_pc' = "iter"
    /\ snap_size' = Cardinality(active_tasks)
    /\ snap_jobs' = {}
    /\ UNCHANGED <<ping_handler, forced_ping_status, registryvars, now, statusvars, ping_resp>>
    /\ UNCHANGED <<rpc, r_test, seen, snap_out>>
    /\ UNCHANGED <<reqvars, streamvars, dispatchvars, taskvars, identityvars>>

\* ... one step of the for loop: the iterator raises RuntimeError (dictionary
\* changed size during iteration) outside the try of the loop body, or gives
\* the next task in insertion order, or is exhausted ...
GetAsyncTaskInfoNext ==
    /\ snap_pc = "iter"
    /\ LET left == Ids(active_tasks) \ snap_jobs IN
       CASE Cardinality(active_tasks) # snap_size ->
               /\ snap_pc' = "idle"
               /\ snap_out' = [raised |-> TRUE, active_count |-> 0, running_jobs |-> {}]
               /\ UNCHANGED snap_jobs
         [] Cardinality(active_tasks) = snap_size /\ left # {}
                /\ Cardinality(snap_jobs) < snap_size ->
               /\ snap_jobs' = snap_jobs \cup {CHOOSE i \in left : \A j \in left : i <= j}
               /\ UNCHANGED <<snap_pc, snap_out>>
         [] OTHER ->
               /\ snap_pc' = "count"
               /\ UNCHANGED <<snap_jobs, snap_out>>
    /\ UNCHANGED <<ping_handler, forced_ping_status, registryvars, now, statusvars, ping_resp>>
    /\ UNCHANGED <<rpc, r_test, seen, snap_size>>
    /\ UNCHANGED <<reqvars, streamvars, dispatchvars, taskvars, identityvars>>

\* ... line 186: len(self._active_tasks) is read when the loop is over
GetAsyncTaskInfoReturn ==
    /\ snap_pc = "count"
    /\ snap_pc' = "idle"
    /\ snap_out' = [raised |-> FALSE, active_count |-> Cardinality(active_tasks),
                    running_jobs |-> snap_jobs]
    /\ UNCHANGED <<ping_handler, forced_ping_status, registryvars, now, statusvars, ping_resp>>
    /\ UNCHANGED <<rpc, r_test, seen, snap_size, snap_jobs>>
    /\ UNCHANGED <<reqvars, streamvars, dispatchvars, taskvars, identityvars>>

\* ------------------------------------- debug directives and arguments
\* The directive of a payload, payload.get("_agent_core_app_action"):
\*   "absent"      the key is missing (get returns None)
\*   "empty"       the key is there with a falsy value ("", null, 0, false)
\*   a member of TaskActions
\*   "unknown"     any other non-empty string
\*   "unhashable"  a JSON array or object
TaskActions == {"ping_status", "job_status", "force_healthy", "force_busy",
                "clear_forced_status"}
Directives == {"absent", "empty", "unknown", "unhashable"} \cup TaskActions
NoPayload == [ok |-> FALSE, action |-> "nobody"]
MalformedBody == [ok |-> FALSE, action |-> "absent"]
Payloads == {MalformedBody} \cup {[ok |-> TRUE, action |-> a] : a \in Directives}

\* inspect.signature(handler): the parameter names, or an exception
NoSignature == [inspectable |-> FALSE, params |-> <<>>]
Signatures ==
    {NoSignature} \cup
    {[inspectable |-> TRUE, params |-> p] :
        p \in {<<"payload">>, <<"payload", "context">>, <<"payload", "ctx">>,
               <<"context", "payload">>}}

\* _takes_context(handler)
TakesContextAnySecond(sig) ==   \* variant: the name of the parameter is not tested
    sig.inspectable /\ Len(sig.params) >= 2
TakesContext(sig) ==
    IF sig.inspectable
    THEN Len(sig.params) >= 2 /\ sig.params[2] = "context"
    ELSE FALSE

\* line 352: the arguments of the handler call
NoArgs == [passed |-> FALSE, payload |-> NoPayload, context |-> FALSE]
HandlerArgs(takes_context, p) ==
    [passed |-> TRUE, payload |-> p, context |-> takes_context]

\* the headers of a request, as far as the session id goes: whether they can
\* be read at all, and the value of the session-id header (None: no header)
SessionIds == {"", "session-a", "session-b"}
NoHeaders == [readable |-> TRUE, session |-> None]
Headers ==
    {[readable |-> TRUE, session |-> x] : x \in {None} \cup SessionIds}
        \cup {[readable |-> FALSE, session |-> "session-a"]}

\* a or b, on header values: None and the empty string are falsy
Or(a, b) == IF a # None /\ a # "" THEN a ELSE b

\* _build_request_context(request) for request r: headers.get(SESSION_HEADER) or
\* headers.get(SESSION_HEADER.lower()); the header names are case-insensitive,
\* so both lookups find the same header; an exception gives session_id None
NoContext == [built |-> FALSE, session_id |-> None]
BuildRequestContextFirst(r) ==   \* variant: one slot holds the session id
    [built |-> TRUE,
     session_id |-> IF headers[1].readable
                    THEN Or(headers[1].session, headers[1].session) ELSE None]
BuildRequestContext(r) ==
    [built |-> TRUE,
     session_id |-> IF headers[r].readable
                    THEN Or(headers[r].session, headers[r].session) ELSE None]

\* the body of a debug response
NoDebugBody == [kind |-> "none", status |-> None, time |-> 0, jobs |-> 0]
DebugResponse == [status |-> 200, error |-> "none", value |-> 0]
UnknownActionResponse == [status |-> 400, error |-> "Unknown action", value |-> 0]
DebugFailedResponse == [status |-> 500, error |-> "Debug action failed", value |-> 0]

\* line 366: "if not action: return None"
NoDirective(a) == a \in {"absent", "empty"}

\* line 281: whether _handle_task_action is asked at all
AsksTaskActionAlways(dbg) == TRUE   \* variant: self.debug is not tested
AsksTaskActionNever(dbg) == FALSE   \* variant: directives are not looked at
AsksTaskAction(dbg) == dbg

\* lines 401-403: a directive that is no key of the dict
UnknownActionIgnored(a) == NoResp   \* variant: nothing is answered
UnknownAction(a) ==
    IF a = "unhashable" THEN DebugFailedResponse ELSE UnknownActionResponse

\* _handle_task_action(payload) with a directive: the response, its body and
\* the effect on the health state
TaskAction(r, a) ==
    LET st == CurrentStatus(forced_ping_status, forced_ping_status, ping_handler,
                            active_tasks)
        t == StatusUpdateTime(last_known_status, st, last_status_update_time, now)
    IN
    /\ resp' = [resp EXCEPT ![r] =
            CASE a = "ping_status" /\ st \notin PingStatus ->
                    \* .value of an object that is no PingStatus: AttributeError
                    DebugFailedResponse
              [] a \in TaskActions -> DebugResponse
              [] OTHER -> UnknownAction(a)]
    /\ debug_body' = [debug_body EXCEPT ![r] =
            CASE a = "ping_status" /\ st \in PingStatus ->
                    [kind |-> a, status |-> st, time |-> t, jobs |-> 0]
              [] a = "job_status" ->
                    [kind |-> a, status |-> None, time |-> 0,
                     jobs |-> Cardinality(active_tasks)]
              [] a = "force_healthy" ->
                    [kind |-> "forced_status", status |-> HEALTHY, time |-> 0, jobs |-> 0]
              [] a = "force_busy" ->
                    [kind |-> "forced_status", status |-> HEALTHY_BUSY, time |-> 0,
                     jobs |-> 0]
              [] a = "clear_forced_status" ->
                    [kind |-> "forced_status", status |-> "Cleared", time |-> 0, jobs |-> 0]
              [] OTHER -> @]
    /\ forced_ping_status' =
            CASE a = "force_healthy" -> ForcedAfterForce(forced_ping_status, HEALTHY)
              [] a = "force_busy" -> ForcedAfterForce(forced_ping_status, HEALTHY_BUSY)
              [] a = "clear_forced_status" -> ForcedAfterClear(forced_ping_status)
              [] OTHER -> forced_ping_status
    /\ status_out' = IF a = "ping_status" THEN st ELSE status_out
    /\ last_status_update_time' = IF a = "ping_status" THEN t ELSE last_status_update_time
    /\ last_known_status' = IF a = "ping_status" THEN st ELSE last_known_status
    /\ pc' = [pc EXCEPT ![r] = "done"]
    /\ UNCHANGED <<handlers, sem_value, sem_waiters, pool_running, pool_queue, permit,
                   admission, called, outcome, sem_phase, args>>

\* app.entrypoint(func) for a function with the signature sig
EntrypointWith(h, sig) ==
    /\ handlers # h \/ handler_sig # sig
    /\ handlers' = h
    /\ handler_sig' = sig
    /\ UNCHANGED <<sem_value, sem_waiters, pool_running, pool_queue, pc, permit,
                   admission, called, outcome, resp, sem_phase>>
    /\ UNCHANGED <<debug, payload, args, debug_body, headers, context>>
    /\ UNCHANGED <<streamvars, healthvars, taskvars, identityvars>>

\* POST /invocations arrives with the body p and the headers hdr
Post(r, p, hdr) ==
    /\ pc[r] = "idle"
    /\ pc' = [pc EXCEPT ![r] = "body"]
    /\ payload' = [payload EXCEPT ![r] = p]
    /\ headers' = [headers EXCEPT ![r] = hdr]
    /\ UNCHANGED <<handlers, sem_value, sem_waiters, pool_running, pool_queue, permit,
                   admission, called, outcome, resp, sem_phase>>
    /\ UNCHANGED <<debug, handler_sig, args, debug_body, context>>
    /\ UNCHANGED <<streamvars, healthvars, taskvars, identityvars>>

\* _handle_invocation with the body read: the debug directive first, then the
\* handler with the arguments its signature asks for
HandleInvocationDebug(r) ==
    /\ pc[r] = "body"
    /\ LET p == payload[r] IN
       IF p.ok /\ AsksTaskAction(debug) /\ ~NoDirective(p.action)
       THEN TaskAction(r, p.action) /\ UNCHANGED context
       ELSE /\ \E o \in Outcomes(r) \cup {Suspend} : Invocation(r, p.ok, o)
            /\ context' = [context EXCEPT ![r] =
                    IF Branch(p.ok) \in {"badjson", "noentry"} THEN @
                    ELSE BuildRequestContext(r)]
            /\ args' = [args EXCEPT ![r] =
                    IF Branch(p.ok) \in {"coro", "executor"}
                    THEN HandlerArgs(TakesContext(handler_sig), p) ELSE @]
            /\ UNCHANGED <<forced_ping_status, statusvars, debug_body>>
    /\ UNCHANGED <<ping_handler, registryvars, now, ping_resp>>
    /\ UNCHANGED threadvars
    /\ UNCHANGED <<debug, handler_sig, payload, headers>>
    /\ UNCHANGED <<streamvars, taskvars, identityvars>>

\* ------------------------------------------ task registry under threads
Threads == 1..NumThreads
Wrapped == 1..NumWrapped

\* line 208: task_id = hash(str(uuid.uuid4())). The n-th id drawn is modelled
\* as a value no earlier draw produced: random 122-bit values hashed to 64 bits
\* are taken to be distinct.
NewTaskIdFixed(n) == 1   \* variant: every call draws the same id
NewTaskId(n) == n

\* line 239: self._active_tasks.pop(task_id, None): what is left, and whether
\* the popped value is truthy (a task_info dict is never empty)
PopRestKeep(tasks, id) == tasks   \* variant: the entry is read and not removed
PopRest(tasks, id) == {x \in tasks : x.id # id}
PopFound(tasks, id) == id \in Ids(tasks)

\* thread t calls add_async_task and enters "with self._task_counter_lock"
AddAsyncTaskLock(t) ==
    /\ tpc[t] = "idle"
    /\ task_lock = 0
    /\ next_task <= MaxTasks
    /\ task_lock' = t
    /\ tpc' = [tpc EXCEPT ![t] = "add"]
    /\ UNCHANGED <<wpc, wtask, targ, tret, cret, adds_done, found_true>>
    /\ UNCHANGED <<reqvars, streamvars, healthvars, dispatchvars, identityvars>>

\* lines 208-215: the id is drawn and the entry is stored
AddAsyncTaskInsert(t) ==
    /\ tpc[t] = "add"
    /\ LET id == NewTaskId(next_task) IN
        /\ active_tasks' = PopRest(active_tasks, id) \cup {TaskInfo(id, now)}
        /\ targ' = [targ EXCEPT ![t] = id]
    /\ next_task' = next_task + 1
    /\ tpc' = [tpc EXCEPT ![t] = "added"]
    /\ UNCHANGED <<wpc, wtask, task_lock, tret, cret, adds_done, found_true>>
    /\ UNCHANGED <<ping_handler, forced_ping_status, completed, now, statusvars, ping_resp>>
    /\ UNCHANGED threadvars
    /\ UNCHANGED <<reqvars, streamvars, dispatchvars, identityvars>>

\* line 218: return task_id, leaving the with block
AddAsyncTaskReturn(t) ==
    /\ tpc[t] = "added"
    /\ task_lock' = 0
    /\ tret' = [tret EXCEPT ![t] = targ[t]]
    /\ adds_done' = adds_done + 1
    /\ tpc' = [tpc EXCEPT ![t] = "idle"]
    /\ UNCHANGED <<wpc, wtask, targ, cret, found_true>>
    /\ UNCHANGED <<reqvars, streamvars, healthvars, dispatchvars, identityvars>>

\* thread t calls complete_async_task(id)
CompleteAsyncTaskCall(t, id) ==
    /\ tpc[t] = "idle"
    /\ targ' = [targ EXCEPT ![t] = id]
    /\ cret' = [cret EXCEPT ![t] = "none"]
    /\ tpc' = [tpc EXCEPT ![t] = "call"]
    /\ UNCHANGED <<wpc, wtask, task_lock, tret, adds_done, found_true>>
    /\ UNCHANGED <<reqvars, streamvars, healthvars, dispatchvars, identityvars>>

\* line 238: with self._task_counter_lock
CompleteAsyncTaskLock(t) ==
    /\ tpc[t] = "call"
    /\ task_lock = 0
    /\ task_lock' = t
    /\ tpc' = [tpc EXCEPT ![t] = "complete"]
    /\ UNCHANGED <<wpc, wtask, targ, tret, cret, adds_done, found_true>>
    /\ UNCHANGED <<reqvars, streamvars, healthvars, dispatchvars, identityvars>>

\* lines 239-240: the entry is popped and tested
CompleteAsyncTaskPop(t) ==
    /\ tpc[t] = "complete"
    /\ LET found == PopFound(active_tasks, targ[t]) IN
        /\ cret' = [cret EXCEPT ![t] = IF found THEN "true" ELSE "false"]
        /\ completed' = IF found THEN completed \cup {targ[t]} ELSE completed
        /\ found_true' = [found_true EXCEPT ![targ[t]] = IF found THEN @ + 1 ELSE @]
    /\ active_tasks' = PopRest(active_tasks, targ[t])
    /\ tpc' = [tpc EXCEPT ![t] = "completed"]
    /\ UNCHANGED <<wpc, wtask, task_lock, targ, tret, adds_done>>
    /\ UNCHANGED <<ping_handler, forced_ping_status, next_task, now, statusvars, ping_resp>>
    /\ UNCHANGED threadvars
    /\ UNCHANGED <<reqvars, streamvars, dispatchvars, identityvars>>

\* lines 245/248: return True or False, leaving the with block
CompleteAsyncTaskReturn(t) ==
    /\ tpc[t] = "completed"
    /\ task_lock' = 0
    /\ tpc' = [tpc EXCEPT ![t] = "idle"]
    /\ UNCHANGED <<wpc, wtask, targ, tret, cret, adds_done, found_true>>
    /\ UNCHANGED <<reqvars, streamvars, healthvars, dispatchvars, identityvars>>

\* ------------------------------------------------- @app.async_task
\* lines 134-135: whether the wrapper completes its task when the wrapped
\* function ends in the way how ("returned" or "raised")
FinallyOnReturnOnly(how) == how = "returned"   \* variant: no finally clause
Finally(how) == TRUE

\* the wrapper of w starts: add_async_task(func.__name__), then func is awaited
WrapperStart(w) ==
    /\ wpc[w] # "running"
    /\ next_task <= MaxTasks
    /\ LET id == NewTaskId(next_task) IN
        /\ active_tasks' = PopRest(active_tasks, id) \cup {TaskInfo(id, now)}
        /\ wtask' = [wtask EXCEPT ![w] = id]
    /\ next_task' = next_task + 1
    /\ wpc' = [wpc EXCEPT ![w] = "running"]
    /\ UNCHANGED <<task_lock, tpc, targ, tret, cret, adds_done, found_true>>
    /\ UNCHANGED <<ping_handler, forced_ping_status, completed, now, statusvars, ping_resp>>
    /\ UNCHANGED threadvars
    /\ UNCHANGED <<reqvars, streamvars, dispatchvars, identityvars>>

\* the wrapped function of w returns or raises and the wrapper leaves its try
\* statement
WrapperEnd(w) ==
    /\ wpc[w] = "running"
    /\ \E how \in {"returned", "raised"} :
        /\ wpc' = [wpc EXCEPT ![w] = how]
        /\ active_tasks' = IF Finally(how) THEN PopRest(active_tasks, wtask[w])
                           ELSE active_tasks
        /\ completed' = IF Finally(how) /\ PopFound(active_tasks, wtask[w])
                        THEN completed \cup {wtask[w]} ELSE completed
    /\ UNCHANGED <<wtask, task_lock, tpc, targ, tret, cret, adds_done, found_true>>
    /\ UNCHANGED <<ping_handler, forced_ping_status, next_task, now, statusvars, ping_resp>>
    /\ UNCHANGED threadvars
    /\ UNCHANGED <<reqvars, streamvars, dispatchvars, identityvars>>

\* ----------------------------------------------------- specification
NoProducer == [items |-> <<>>, fault |-> "none"]

ReqInit ==
    /\ handlers = NoHandler
    /\ sem_value = SemCapacity
    /\ sem_waiters = <<>>
    /\ pool_running = {}
    /\ pool_queue = <<>>
    /\ pc = [r \in Req |-> "idle"]
    /\ permit = [r \in Req |-> FALSE]
    /\ admission = [r \in Req |-> "none"]
    /\ called = [r \in Req |-> 0]
    /\ outcome = [r \in Req |-> NoOutcome]
    /\ resp = [r \in Req |-> NoResp]
    /\ sem_phase = "fresh"

StreamIdle ==
    /\ producer = NoProducer
    /\ cursor = 0
    /\ tmode = "sync"
    /\ tstate = "loop"
    /\ frames = <<>>
    /\ reads = 0

HealthIdle ==
    /\ ping_handler = NoPingHandler
    /\ forced_ping_status = None
    /\ active_tasks = {}
    /\ next_task = 1
    /\ completed = {}
    /\ now = 0
    /\ last_known_status = "unset"
    /\ last_status_update_time = 0
    /\ status_out = None
    /\ ping_resp = NoPing
    /\ rpc = "idle"
    /\ r_test = None
    /\ seen = {}
    /\ snap_pc = "idle"
    /\ snap_size = 0
    /\ snap_jobs = {}
    /\ snap_out = NoSnapshot

DispatchIdle ==
    /\ debug = FALSE
    /\ handler_sig = NoSignature
    /\ payload = [r \in Req |-> NoPayload]
    /\ args = [r \in Req |-> NoArgs]
    /\ debug_body = [r \in Req |-> NoDebugBody]
    /\ headers = [r \in Req |-> NoHeaders]
    /\ context = [r \in Req |-> NoContext]

\* ------------------------------------------------------------ identity.py
\* Default configuration for the polling mechanism
DEFAULT_POLLING_INTERVAL_SECONDS == 5
DEFAULT_POLLING_TIMEOUT_SECONDS == 600

\* asyncio.sleep(d) returns after at least d seconds: the event loop resumes
\* the coroutine up to MaxDelay seconds late
SleepTimes ==
    DEFAULT_POLLING_INTERVAL_SECONDS .. DEFAULT_POLLING_INTERVAL_SECONDS + MaxDelay

\* line 45: the test of the while loop
WithinTimeoutAlways(elapsed) == TRUE   \* variant: while True
WithinTimeout(elapsed) == elapsed < DEFAULT_POLLING_TIMEOUT_SECONDS

\* line 50: resp is not None
IsReady(resp_) == resp_ # None

\* what polling_func() returns: None, or the accessToken of the response (a
\* string, the empty one included)
PollResponses == {None, "", "token"}

\* the keys of the response to the initial get_resource_oauth2_token request
InitialResponses == {"accessToken", "authorizationUrl", "both", "neither"}
HasAccessToken(resp_) == resp_ \in {"accessToken", "both"}
HasAuthorizationUrl(resp_) == resp_ \in {"authorizationUrl", "both"}

\* lines 201-202: req["forceAuthentication"] of the initial request
ForceOfInitial(force) == IF force THEN "true" ELSE "absent"

\* lines 223-224: req["forceAuthentication"] of the polling requests
ForceOfPollsKept(force, rf) == rf   \* variant: the request is polled unchanged
ForceOfPolls(force, rf) == IF force THEN "false" ELSE rf

OtherThanIdentity ==
    <<reqvars, streamvars, healthvars, dispatchvars, taskvars>>

\* get_token(force_authentication, on_auth_url, token_poller): validation passed,
\* req built (lines 181-202)
GetToken(force, cb, custom) ==
    /\ ipc = "idle"
    /\ ipc' = "request"
    /\ force_authentication' = force
    /\ on_auth_url' = cb
    /\ token_poller' = custom
    /\ req_force' = ForceOfInitial(force)
    /\ UNCHANGED <<wall, start_time, response, initial_force, notified, sleeps, polls,
                   forced_polls, poll_resp, token_at>>
    /\ UNCHANGED OtherThanIdentity

\* lines 204-213, 232: the initial request and the dispatch on its response; the
\* request itself may raise (ok = FALSE)
InitialRequest(ok, resp_) ==
    /\ ipc = "request"
    /\ initial_force' = req_force
    /\ response' = IF ok THEN resp_ ELSE response
    /\ ipc' = CASE ~ok -> "raised"
                [] HasAccessToken(resp_) -> "returned"
                [] HasAuthorizationUrl(resp_) -> "auth_url"
                [] OTHER -> "raised"
    /\ UNCHANGED <<wall, start_time, force_authentication, on_auth_url, token_poller,
                   req_force, notified, sleeps, polls, forced_polls, poll_resp, token_at>>
    /\ UNCHANGED OtherThanIdentity

\* lines 216-221: the callback, when one is given, is called (awaited when it
\* is a coroutine function); it may raise (ok = FALSE)
NotifyAuthUrl(ok) ==
    /\ ipc = "auth_url"
    /\ on_auth_url # "none" \/ ok
    /\ notified' = IF on_auth_url # "none" THEN notified + 1 ELSE notified
    /\ ipc' = IF ok THEN "prepare" ELSE "raised"
    /\ UNCHANGED <<wall, start_time, force_authentication, on_auth_url, token_poller,
                   response, req_force, initial_force, sleeps, polls, forced_polls,
                   poll_resp, token_at>>
    /\ UNCHANGED OtherThanIdentity

\* lines 223-230: forceAuthentication reset, the poller chosen and started
\* (line 44: start_time = time.time())
StartPoller ==
    /\ ipc = "prepare"
    /\ req_force' = ForceOfPolls(force_authentication, req_force)
    /\ ipc' = IF token_poller THEN "custom" ELSE "check"
    /\ start_time' = IF token_poller THEN start_time ELSE wall
    /\ UNCHANGED <<wall, force_authentication, on_auth_url, token_poller, response,
                   initial_force, notified, sleeps, polls, forced_polls, poll_resp,
                   token_at>>
    /\ UNCHANGED OtherThanIdentity

\* a custom token_poller: its poll_for_token returns a token or raises, and
\* makes no request through req
CustomPoller(ok) ==
    /\ ipc = "custom"
    /\ ipc' = IF ok THEN "returned" ELSE "raised"
    /\ UNCHANGED <<wall, start_time, force_authentication, on_auth_url, token_poller,
                   response, req_force, initial_force, notified, sleeps, polls,
                   forced_polls, poll_resp, token_at>>
    /\ UNCHANGED OtherThanIdentity

\* line 45: while time.time() - start_time < DEFAULT_POLLING_TIMEOUT_SECONDS;
\* line 54: raise asyncio.TimeoutError
PollCheck ==
    /\ ipc = "check"
    /\ ipc' = IF WithinTimeout(wall - start_time) THEN "sleep" ELSE "timeout"
    /\ UNCHANGED <<wall, start_time, force_authentication, on_auth_url, token_poller,
                   response, req_force, initial_force, notified, sleeps, polls,
                   forced_polls, poll_resp, token_at>>
    /\ UNCHANGED OtherThanIdentity

\* line 46: await asyncio.sleep(DEFAULT_POLLING_INTERVAL_SECONDS)
PollSleep(d) ==
    /\ ipc = "sleep"
    /\ wall' = wall + d
    /\ sleeps' = sleeps + 1
    /\ ipc' = "poll"
    /\ UNCHANGED <<start_time, force_authentication, on_auth_url, token_poller,
                   response, req_force, initial_force, notified, polls,
                   forced_polls, poll_resp, token_at>>
    /\ UNCHANGED OtherThanIdentity

\* lines 49-52: resp = self.polling_func(); the request may raise (ok = FALSE)
PollCall(ok, resp_) ==
    /\ ipc = "poll"
    /\ polls' = polls + 1
    /\ forced_polls' = IF req_force = "true" THEN forced_polls + 1 ELSE forced_polls
    /\ poll_resp' = IF ok THEN resp_ ELSE poll_resp
    /\ token_at' = IF ok /\ IsReady(resp_) THEN wall - start_time ELSE token_at
    /\ ipc' = CASE ~ok -> "raised"
                [] IsReady(resp_) -> "returned"
                [] OTHER -> "check"
    /\ UNCHANGED <<wall, start_time, force_authentication, on_auth_url, token_poller,
                   response, req_force, initial_force, notified, sleeps>>
    /\ UNCHANGED OtherThanIdentity

IdentityIdle ==
    /\ ipc = "idle"
    /\ wall = 0
    /\ start_time = 0
    /\ force_authentication = FALSE
    /\ on_auth_url = "none"
    /\ token_poller = FALSE
    /\ response = "none"
    /\ req_force = "absent"
    /\ initial_force = "absent"
    /\ notified = 0
    /\ sleeps = 0
    /\ polls = 0
    /\ forced_polls = 0
    /\ poll_resp = None
    /\ token_at = 0

TaskIdle ==
    /\ wpc = [w \in Wrapped |-> "idle"]
    /\ wtask = [w \in Wrapped |-> 0]
    /\ task_lock = 0
    /\ tpc = [t \in Threads |-> "idle"]
    /\ targ = [t \in Threads |-> 0]
    /\ tret = [t \in Threads |-> 0]
    /\ cret = [t \in Threads |-> "none"]
    /\ adds_done = 0
    /\ found_true = [id \in TaskIds |-> 0]

Init == ReqInit /\ StreamIdle /\ HealthIdle /\ DispatchIdle /\ TaskIdle /\ IdentityIdle

Next ==
    \/ \E h \in Handlers : Entrypoint(h)
    \/ \E r \in Req : Arrive(r)
    \/ \E r \in Req : HandleInvocation(r)
    \/ \E r \in Req : WorkerFinish(r)
    \/ \E r \in Req : ResumeExecutor(r)
    \/ \E r \in Req : ResumeCoro(r)
    \/ \E r \in Req : StreamEnd(r)

Spec == Init /\ [][Next]_vars

\* the transcoder alone, over every producer within the bounds
StreamInit ==
    /\ ReqInit
    /\ producer \in Producers
    /\ tmode \in {"sync", "async"}
    /\ cursor = 0
    /\ tstate = "loop"
    /\ frames = <<>>
    /\ reads = 0
    /\ HealthIdle
    /\ DispatchIdle
    /\ TaskIdle
    /\ IdentityIdle

StreamNext == SyncStreamNext \/ AsyncStreamNext

StreamSpec == StreamInit /\ [][StreamNext]_vars

\* the code's scheduling: a worker thread that runs a handler call finishes it,
\* and the loop resumes a task whose future is done or whose handler can go on
\* (the premise "every admitted handler eventually returns or raises")
FairSpec ==
    /\ Spec
    /\ \A r \in Req : WF_vars(WorkerFinish(r))
    /\ \A r \in Req : WF_vars(ResumeExecutor(r))
    /\ \A r \in Req : WF_vars(ResumeCoro(r))

\* the health status and the task registry, every call run without interruption
HealthNext ==
    \/ \E h \in PingHandlers : Ping(h)
    \/ \E s \in PingStatus : ForcePingStatus(s)
    \/ ClearForcedPingStatus
    \/ AddAsyncTask
    \/ \E id \in TaskIds : CompleteAsyncTask(id)
    \/ Tick
    \/ GetCurrentPingStatus

HealthSpec == Init /\ [][HealthNext]_vars

\* get_current_ping_status on one thread, advancing one access to the shared
\* state at a time, while other threads set and clear the override; the
\* resolver and the registry are set up between the calls
ResolveThreadNext ==
    \/ rpc = "idle" /\ \E h \in PingHandlers : Ping(h)
    \/ \E s \in PingStatus : ForcePingStatus(s)
    \/ ClearForcedPingStatus
    \/ rpc = "idle" /\ AddAsyncTask
    \/ rpc = "idle" /\ \E id \in TaskIds : CompleteAsyncTask(id)
    \/ GetCurrentPingStatusTest
    \/ GetCurrentPingStatusRest

ResolveThreadSpec == Init /\ [][ResolveThreadNext]_vars

\* get_async_task_info on one thread, advancing one access to the dict at a
\* time, while other threads register and complete tasks
SnapshotThreadNext ==
    \/ AddAsyncTask
    \/ \E id \in TaskIds : CompleteAsyncTask(id)
    \/ Tick
    \/ GetAsyncTaskInfoIter
    \/ GetAsyncTaskInfoNext
    \/ GetAsyncTaskInfoReturn

SnapshotThreadSpec == Init /\ [][SnapshotThreadNext]_vars

\* GET /ping served between the steps of the invocations, for every override,
\* resolver and registry the application can have been given
HealthSetUp ==
    /\ ping_handler \in {NoPingHandler} \cup PingHandlers
    /\ forced_ping_status \in {None} \cup PingStatus
    /\ \E n \in 0..MaxTasks :
          /\ active_tasks = {TaskInfo(id, 0) : id \in 1..n}
          /\ next_task = n + 1
    /\ completed = {}
    /\ now = 0
    /\ last_known_status = "unset"
    /\ last_status_update_time = 0
    /\ status_out = None
    /\ ping_resp = NoPing
    /\ rpc = "idle"
    /\ r_test = None
    /\ seen = {}
    /\ snap_pc = "idle"
    /\ snap_size = 0
    /\ snap_jobs = {}
    /\ snap_out = NoSnapshot

PingInit ==
    ReqInit /\ StreamIdle /\ HealthSetUp /\ DispatchIdle /\ TaskIdle /\ IdentityIdle

\* as many invocations as there are permits run beside the pings
PingReq == 1..SemCapacity
PingNext ==
    \/ \E h \in Handlers : Entrypoint(h)
    \/ \E r \in PingReq : Arrive(r)
    \/ \E r \in PingReq : HandleInvocation(r)
    \/ \E r \in PingReq : WorkerFinish(r)
    \/ \E r \in PingReq : ResumeExecutor(r)
    \/ \E r \in PingReq : ResumeCoro(r)
    \/ \E r \in PingReq : StreamEnd(r)
    \/ HandlePing

PingSpec == PingInit /\ [][PingNext]_vars

\* the invocation endpoint with its debug directives: an application built
\* with or without debug=True, an override and a registry in any state
DispatchReq == {1}
DispatchInit ==
    /\ ReqInit
    /\ StreamIdle
    /\ HealthSetUp
    /\ ping_handler = NoPingHandler
    /\ debug \in BOOLEAN
    /\ handler_sig = NoSignature
    /\ payload = [r \in Req |-> NoPayload]
    /\ args = [r \in Req |-> NoArgs]
    /\ debug_body = [r \in Req |-> NoDebugBody]
    /\ headers = [r \in Req |-> NoHeaders]
    /\ context = [r \in Req |-> NoContext]
    /\ TaskIdle
    /\ IdentityIdle

DispatchNext ==
    \/ \E h \in Handlers, sig \in Signatures : EntrypointWith(h, sig)
    \/ \E r \in DispatchReq, p \in Payloads : Post(r, p, NoHeaders)
    \/ \E r \in DispatchReq : HandleInvocationDebug(r)
    \/ \E r \in DispatchReq : WorkerFinish(r)
    \/ \E r \in DispatchReq : ResumeExecutor(r)
    \/ \E r \in DispatchReq : ResumeCoro(r)
    \/ \E r \in DispatchReq : StreamEnd(r)

DispatchSpec == DispatchInit /\ [][DispatchNext]_vars

\* an application built with debug=True: as many plain invocations as there
\* are permits run beside one request that carries a debug directive
DebugReq == {SemCapacity + 1}
DirectivePayloads == {p \in Payloads : p.ok /\ p.action \in TaskActions}
DirectiveInit ==
    /\ ReqInit
    /\ StreamIdle
    /\ HealthSetUp
    /\ ping_handler \in {NoPingHandler, [kind |-> "object", v |-> None]}
    /\ debug = TRUE
    /\ handler_sig = NoSignature
    /\ payload = [r \in Req |-> NoPayload]
    /\ args = [r \in Req |-> NoArgs]
    /\ debug_body = [r \in Req |-> NoDebugBody]
    /\ headers = [r \in Req |-> NoHeaders]
    /\ context = [r \in Req |-> NoContext]
    /\ TaskIdle
    /\ IdentityIdle

DirectiveNext ==
    \/ \E h \in Handlers : Entrypoint(h)
    \/ \E r \in PingReq : Arrive(r)
    \/ \E r \in PingReq : HandleInvocation(r)
    \/ \E r \in DebugReq, p \in DirectivePayloads : Post(r, p, NoHeaders)
    \/ \E r \in DebugReq : HandleInvocationDebug(r)
    \/ \E r \in PingReq : WorkerFinish(r)
    \/ \E r \in PingReq : ResumeExecutor(r)
    \/ \E r \in PingReq : ResumeCoro(r)
    \/ \E r \in PingReq : StreamEnd(r)

DirectiveSpec == DirectiveInit /\ [][DirectiveNext]_vars

\* threads that register and complete tasks, one statement at a time
\* ---- requests with session headers, handlers that take the context
ContextSignature == [inspectable |-> TRUE, params |-> <<"payload", "context">>]
PlainPayload == [ok |-> TRUE, action |-> "absent"]

ContextInit ==
    /\ ReqInit
    /\ StreamIdle
    /\ HealthSetUp
    /\ ping_handler = NoPingHandler
    /\ debug = FALSE
    /\ handler_sig = NoSignature
    /\ payload = [r \in Req |-> NoPayload]
    /\ args = [r \in Req |-> NoArgs]
    /\ debug_body = [r \in Req |-> NoDebugBody]
    /\ headers = [r \in Req |-> NoHeaders]
    /\ context = [r \in Req |-> NoContext]
    /\ TaskIdle
    /\ IdentityIdle

ContextNext ==
    \/ \E h \in Handlers : EntrypointWith(h, ContextSignature)
    \/ \E r \in PingReq, hdr \in Headers : Post(r, PlainPayload, hdr)
    \/ \E r \in PingReq : HandleInvocationDebug(r)
    \/ \E r \in PingReq : WorkerFinish(r)
    \/ \E r \in PingReq : ResumeExecutor(r)
    \/ \E r \in PingReq : ResumeCoro(r)
    \/ \E r \in PingReq : StreamEnd(r)

ContextSpec == ContextInit /\ [][ContextNext]_vars

\* ---- the default token poller alone: poll_for_token called at time 0
PollerInit ==
    /\ ReqInit
    /\ StreamIdle
    /\ HealthIdle
    /\ DispatchIdle
    /\ TaskIdle
    /\ ipc = "check"
    /\ wall = 0
    /\ start_time = 0
    /\ force_authentication = FALSE
    /\ on_auth_url = "none"
    /\ token_poller = FALSE
    /\ response = "authorizationUrl"
    /\ req_force = "absent"
    /\ initial_force = "absent"
    /\ notified = 0
    /\ sleeps = 0
    /\ polls = 0
    /\ forced_polls = 0
    /\ poll_resp = None
    /\ token_at = 0

PollerNext ==
    \/ PollCheck
    \/ \E d \in SleepTimes : PollSleep(d)
    \/ \E ok \in BOOLEAN, resp_ \in PollResponses : PollCall(ok, resp_)

PollerSpec == PollerInit /\ [][PollerNext]_vars

\* the event loop resumes the coroutine after each sleep, and the polling
\* function returns or raises
PollerFairSpec ==
    /\ PollerSpec
    /\ WF_vars(PollCheck)
    /\ WF_vars(\E d \in SleepTimes : PollSleep(d))
    /\ WF_vars(\E ok \in BOOLEAN, resp_ \in PollResponses : PollCall(ok, resp_))

\* ---- get_token, with the default or a custom poller
IdentityInit == ReqInit /\ StreamIdle /\ HealthIdle /\ DispatchIdle /\ TaskIdle /\ IdentityIdle

IdentityNext ==
    \/ \E force \in BOOLEAN, cb \in {"none", "sync", "async"}, custom \in BOOLEAN :
            GetToken(force, cb, custom)
    \/ \E ok \in BOOLEAN, resp_ \in InitialResponses : InitialRequest(ok, resp_)
    \/ \E ok \in BOOLEAN : NotifyAuthUrl(ok)
    \/ StartPoller
    \/ \E ok \in BOOLEAN : CustomPoller(ok)
    \/ PollCheck
    \/ \E d \in SleepTimes : PollSleep(d)
    \/ \E ok \in BOOLEAN, resp_ \in PollResponses : PollCall(ok, resp_)

IdentitySpec == IdentityInit /\ [][IdentityNext]_vars

RegistryThreadNext ==
    \/ \E t \in Threads : AddAsyncTaskLock(t)
    \/ \E t \in Threads : AddAsyncTaskInsert(t)
    \/ \E t \in Threads : AddAsyncTaskReturn(t)
    \/ \E t \in Threads, id \in TaskIds : CompleteAsyncTaskCall(t, id)
    \/ \E t \in Threads : CompleteAsyncTaskLock(t)
    \/ \E t \in Threads : CompleteAsyncTaskPop(t)
    \/ \E t \in Threads : CompleteAsyncTaskReturn(t)

RegistryThreadSpec == Init /\ [][RegistryThreadNext]_vars

\* functions wrapped by @app.async_task beside status queries, with neither an
\* override nor a resolver
AsyncTaskNext ==
    \/ \E w \in Wrapped : WrapperStart(w)
    \/ \E w \in Wrapped : WrapperEnd(w)
    \/ GetCurrentPingStatus
    \/ Tick

AsyncTaskSpec == Init /\ [][AsyncTaskNext]_vars

\* ------------------------------------------------- admission: claims
Holders == {r \in Req : permit[r]}
HeldCount == Cardinality(Holders)
\* r is between entering and leaving _invoke_handler
InsideInvoke(r) == pc[r] \in {"coro", "executor", "waiting"}
\* this step takes r from the read body to the admission check of _invoke_handler
ReachesAdmission(r) == admission[r] = "none" /\ admission'[r] # "none"

\* C1: at most 2 invocations hold an admission permit in any reachable state,
\* and the free-permit count stays within 0..2.
C1_AtMostTwoPermits ==
    /\ HeldCount <= 2
    /\ sem_value \in 0..2
    /\ sem_value + HeldCount = SemCapacity

\* both permits are held while a third invocation has been turned away
C1_Witness == HeldCount = 2 /\ sem_value = 0 /\ \E r \in Req : admission[r] = "rejected"

\* C2: an invocation that reaches admission while both permits are held is
\* answered 503 {"error": "Server busy - maximum concurrent requests reached"}
\* and its handler is not called.
C2_RejectedAnswered503 ==
    \A r \in Req : admission[r] = "rejected" => resp[r] = BusyResponse /\ called[r] = 0

\* C3: the permit of an admitted invocation is held until its result stream
\* has been produced to completion, so at most 2 streams are being produced.
C3_PermitHeldWhileStreaming ==
    /\ \A r \in Req : pc[r] = "stream" => permit[r]
    /\ Cardinality({r \in Req : pc[r] = "stream"}) <= 2

\* C4: every admitted invocation releases its permit exactly once, on return
\* and on raise: with no invocation inside _invoke_handler the free-permit
\* count is 2, and only an invocation inside it holds a permit.
C4_PermitReleasedOnce ==
    /\ (\A r \in Req : ~InsideInvoke(r)) => sem_value = 2
    /\ \A r \in Req : permit[r] => InsideInvoke(r)

\* admitted invocations have returned and raised, and nothing is in flight
C4_Witness ==
    /\ \A r \in Req : ~InsideInvoke(r)
    /\ \E r, q \in Req :
        /\ admission[r] = "admitted" /\ outcome[r].kind = "raise" /\ pc[r] = "done"
        /\ admission[q] = "admitted" /\ outcome[q].kind = "value" /\ pc[q] = "done"

\* C5: admission never blocks: an attempt made while no permit is free is
\* rejected within the same step, and no invocation ever waits for a permit.
C5_NoWaiting == sem_waiters = <<>> /\ \A r \in Req : pc[r] # "waiting"
C5_RejectedAtOnce ==
    \A r \in Req : ReachesAdmission(r) /\ sem_value = 0
        => admission'[r] = "rejected" /\ pc'[r] = "done" /\ sem_waiters' = <<>>
C5_AdmissionNonBlocking == []C5_NoWaiting /\ [][C5_RejectedAtOnce]_vars

\* an attempt was made with no free permit and has been answered
C5_Witness ==
    \E r \in Req : admission[r] = "rejected" /\ pc[r] = "done" /\ sem_value = 0

\* C6: an attempt is rejected exactly when both permits are held at that
\* moment (admitted whenever fewer are held), and every admitted invocation
\* that returns a single value answers with its own value.
C6_AdmitIffFree ==
    \A r \in Req : ReachesAdmission(r)
        => (admission'[r] = "rejected" <=> HeldCount = 2)
C6_OwnResult ==
    \A r \in Req : admission[r] = "admitted" /\ outcome[r].kind = "value" /\ pc[r] = "done"
        => resp[r] = [status |-> 200, error |-> "", value |-> r]
C6_NoSpuriousRejection == []C6_OwnResult /\ [][C6_AdmitIffFree]_vars

\* two invocations were in flight together and both returned their own result
C6_Witness ==
    /\ sem_phase = "refilled"
    /\ \E r, q \in Req :
        /\ r # q
        /\ resp[r] = [status |-> 200, error |-> "", value |-> r]
        /\ resp[q] = [status |-> 200, error |-> "", value |-> q]
        /\ \A x \in Req \ {r, q} : pc[x] = "idle"

\* C7: rejection is never permanent: when every admitted handler eventually
\* returns or raises, a pool with a permit taken eventually has its 2 permits
\* free again, and an attempt made when the 2 permits are free is admitted.
C7_AdmittedWhenFree ==
    \A r \in Req : ReachesAdmission(r) /\ sem_value = 2 => admission'[r] = "admitted"
C7_RejectionNotPermanent ==
    /\ (sem_value < 2) ~> (sem_value = 2)
    /\ [][C7_AdmittedWhenFree]_vars

\* the pool was exhausted, filled up again, and a later invocation holds a permit
C7_Witness ==
    /\ sem_phase = "refilled"
    /\ \E r \in Req : permit[r] /\ called[r] = 1

\* ---------------------------------------------------- stream: claims
\* the terminal Error event; every other frame stands for one produced item
IsError(f) == f.tag = "error"
IsData(f) == f.tag \in {"data", "serfail"}
ErrorFrame(e) == ConvertToSse(ErrorEvent(e)).frame
\* the frame is "data: " followed by JSON text
Parseable(f) == f.repr \in {"json", "str"}
\* the frame carries the item: its JSON form, or the JSON form of its text
Encodes(f, item) == IsData(f) /\ (f.tag = "data" => f.v = item.v)

\* C8: a lazy sequence that raises after K items gives exactly K Data frames,
\* then exactly one Error frame carrying the fault's message and type, then ends.
C8_FaultAfterK ==
    tstate = "finished" /\ producer.fault # NoFault
        => LET K == Len(producer.items) IN
           /\ Len(frames) = K + 1
           /\ \A i \in 1..K : i <= Len(frames) => IsData(frames[i])
           /\ frames[Len(frames)] = ErrorFrame(producer.fault)

\* C9: a lazy sequence of N items that ends without a fault gives exactly N
\* Data frames, the i-th encoding the i-th item, and no Error frame.
C9_NoFaultNFrames ==
    tstate = "finished" /\ producer.fault = NoFault
        => /\ Len(frames) = Len(producer.items)
           /\ \A i \in 1..Len(frames) :
                i <= Len(producer.items) => Encodes(frames[i], producer.items[i])

\* C10 as stated: iterating the transcoder never raises, the stream ends
\* normally, and the consumer has always received a parseable final frame.
C10_AlwaysFinalFrame ==
    /\ tstate # "raised"
    /\ tstate = "finished" => frames # <<>> /\ Parseable(frames[Len(frames)])

\* C10, amended: iterating the transcoder never raises and can always go on
\* until it has ended, every frame emitted is parseable, hence the final one
\* whenever there is one; a producer that yields nothing and raises nothing
\* gives a stream without any frame.
C10_NeverRaises ==
    /\ tstate \in {"loop", "except", "finished"}
    /\ tstate # "finished" => ENABLED StreamNext
    /\ \A i \in 1..Len(frames) : Parseable(frames[i])
    /\ tstate = "finished" /\ (producer.items # <<>> \/ producer.fault # NoFault)
        => frames # <<>>

\* a producer of an unserializable item that then raises has been read to its
\* end: the stream ended with the Error frame of the fault
C10_Witness ==
    /\ tstate = "finished"
    /\ producer.fault # NoFault
    /\ \E i \in 1..Len(producer.items) : producer.items[i].ser = "typeerr"
    /\ Len(frames) = Len(producer.items) + 1
    /\ frames[Len(frames)] = ErrorFrame(producer.fault)

\* the frame the three outcomes of serialization give an item: its JSON form,
\* the JSON form of its text, or the synthesized frame that names its type
FrameOfItem(item) ==
    CASE item.ser = "json" ->
            [tag |-> "data", repr |-> "json", v |-> item.v, error |-> "", etype |-> ""]
      [] item.ser = "str" ->
            [tag |-> "data", repr |-> "str", v |-> item.v, error |-> "", etype |-> ""]
      [] OTHER ->
            [tag |-> "serfail", repr |-> "json", v |-> 0,
             error |-> "Serialization failed", etype |-> TypeName(item)]

\* C11: every produced item yields exactly one frame whatever the outcome of
\* its serialization, and a serialization failure of one item does not end the
\* stream: the later items are still emitted, in order.
C11_OneFramePerItem ==
    /\ \A i \in 1..cursor : i <= Len(frames) /\ frames[i] = FrameOfItem(producer.items[i])
    /\ tstate = "finished" => cursor = Len(producer.items)

\* ---------------------------------------------------- health: claims
\* the status automatic resolution gives: busy iff the registry is non-empty
RegistryStatus == IF active_tasks # {} THEN HEALTHY_BUSY ELSE HEALTHY
\* the resolver is registered and returns a status (a member or its value)
ResolverGivesStatus == ping_handler.kind \in {"status", "str"}
\* override, then the resolver's status, then the registry
PrecedenceStatus ==
    IF forced_ping_status # None THEN forced_ping_status
    ELSE IF ResolverGivesStatus THEN ping_handler.v
    ELSE RegistryStatus

\* C12: in every state get_current_ping_status() returns the forced status if
\* an override is set, otherwise the resolver's status if a resolver is
\* registered and returns one, otherwise HEALTHY_BUSY if the registry is
\* non-empty and HEALTHY if it is empty.
C12_Precedence ==
    /\ ENABLED GetCurrentPingStatus
    /\ ~ENABLED (GetCurrentPingStatus /\ status_out' # PrecedenceStatus)


\* C13: a get_current_ping_status() that runs while other threads call
\* force_ping_status / clear_forced_ping_status returns a status that an
\* uninterrupted call would return in one of the states it ran through (the
\* state before a mutation or the state after it), never a third value.
C13_NoTornRead == rpc = "idle" /\ seen # {} => status_out \in seen


\* ids of the tasks registered so far, and of those not yet completed
Registered == 1..(next_task - 1)
Pending == Registered \ completed

\* C14: with no override and no resolver, after any sequence of add_async_task
\* and complete_async_task calls get_current_ping_status() returns
\* HEALTHY_BUSY exactly when a registered task has not yet been completed, and
\* HEALTHY otherwise.
C14_BusyIffPending ==
    forced_ping_status = None /\ ping_handler = NoPingHandler
        => /\ ENABLED GetCurrentPingStatus
           /\ ~ENABLED (GetCurrentPingStatus
                          /\ status_out' # IF Pending # {} THEN HEALTHY_BUSY ELSE HEALTHY)

\* a task was registered and completed while another is still running, and the
\* status read then is busy
C14_Witness ==
    /\ forced_ping_status = None /\ ping_handler = NoPingHandler
    /\ completed # {} /\ Pending # {}
    /\ status_out = HEALTHY_BUSY /\ last_known_status = HEALTHY_BUSY


\* while an override is set a call returns it
C15_ReturnsForced ==
    forced_ping_status # None
        => /\ ENABLED GetCurrentPingStatus
           /\ ~ENABLED (GetCurrentPingStatus /\ status_out' # forced_ping_status)
\* a step that changes the override is a force_ping_status or a
\* clear_forced_ping_status
C15_OnlyForceAndClear ==
    forced_ping_status' # forced_ping_status
        => (\E s \in PingStatus : ForcePingStatus(s)) \/ ClearForcedPingStatus

\* C15: after force_ping_status(s) every get_current_ping_status() returns s
\* until clear_forced_ping_status() is called, whatever is registered,
\* completed or returned by the resolver in between; only force_ping_status
\* and clear_forced_ping_status change the override.
C15_OverrideHolds == []C15_ReturnsForced /\ [][C15_OnlyForceAndClear]_vars

\* HEALTHY is forced and read while a task is running, another was completed
\* and the resolver says busy
C15_Witness ==
    /\ forced_ping_status = HEALTHY
    /\ ping_handler = [kind |-> "status", v |-> HEALTHY_BUSY]
    /\ active_tasks # {} /\ completed # {}
    /\ status_out = HEALTHY /\ last_known_status = HEALTHY

\* C16: with no override, if the resolver raises or returns a string that is
\* not a valid status, get_current_ping_status() does not raise and returns
\* the automatic status (HEALTHY_BUSY iff the registry is non-empty).
C16_ResolverFailure ==
    forced_ping_status = None /\ ping_handler.kind \in {"raise", "badstr"}
        => /\ ENABLED GetCurrentPingStatus
           /\ ~ENABLED (GetCurrentPingStatus /\ status_out' = Raised)
           /\ ~ENABLED (GetCurrentPingStatus /\ status_out' # RegistryStatus)

\* the resolver returns an invalid string while a task runs: the call returned busy
C16_Witness ==
    /\ forced_ping_status = None
    /\ ping_handler.kind = "badstr"
    /\ active_tasks # {}
    /\ status_out = HEALTHY_BUSY /\ last_known_status = HEALTHY_BUSY

\* C17: get_current_ping_status() modifies the last-status-change timestamp
\* only when the status it resolves differs from the one the previous call
\* resolved (the first call has none before it), and then sets it to the
\* current time; a call that returns the same status leaves it unchanged, and
\* add_async_task, complete_async_task, force_ping_status and
\* clear_forced_ping_status never modify it.
C17_TimestampOnChange ==
    [][/\ GetCurrentPingStatus /\ status_out' = status_out
            => last_status_update_time' = last_status_update_time
       /\ GetCurrentPingStatus /\ status_out' # status_out
            => last_status_update_time' = now
       /\ last_status_update_time' # last_status_update_time
            => GetCurrentPingStatus /\ status_out' # status_out]_vars

\* busy was resolved at time 1; since then the task was completed and the clock
\* went on, and the timestamp still is 1
C17_Witness ==
    /\ status_out = HEALTHY_BUSY
    /\ last_status_update_time = 1 /\ now = 2
    /\ active_tasks = {} /\ completed # {}
    /\ forced_ping_status = None /\ ping_handler = NoPingHandler

\* the status a call returns when no override is set
UnforcedStatus == CurrentStatus(None, None, ping_handler, active_tasks)

\* C18: force_ping_status(s) and clear_forced_ping_status() are idempotent and
\* immediately visible: applied to a state they have already produced they
\* change nothing, and the next get_current_ping_status() returns s after a
\* force and the unforced status after a clear.
C18_Idempotent ==
    /\ \A s \in PingStatus :
          /\ ENABLED ForcePingStatus(s)
          /\ ~ENABLED (ForcePingStatus(s) /\ forced_ping_status' # s)
          /\ forced_ping_status = s => ~ENABLED (ForcePingStatus(s) /\ vars' # vars)
    /\ ENABLED ClearForcedPingStatus
    /\ ~ENABLED (ClearForcedPingStatus /\ forced_ping_status' # None)
    /\ forced_ping_status = None => ~ENABLED (ClearForcedPingStatus /\ vars' # vars)
    /\ ~ENABLED (GetCurrentPingStatus
                   /\ status_out' # IF forced_ping_status # None THEN forced_ping_status
                                     ELSE UnforcedStatus)

\* busy is forced over a resolver that says healthy and an empty registry, and
\* the call that follows returned busy
C18_Witness ==
    /\ forced_ping_status = HEALTHY_BUSY
    /\ ping_handler = [kind |-> "str", v |-> HEALTHY]
    /\ active_tasks = {}
    /\ status_out = HEALTHY_BUSY


\* the resolver was called and did not give a status
ResolverFails == forced_ping_status = None /\ ping_handler.kind \in {"raise", "badstr", "object"}
\* GET /ping leaves admission and the entrypoint handler alone
PingTouchesNothing == HandlePing => UNCHANGED reqvars
\* the last GET /ping was answered 200 with one of the two status values
PingAnswered200 ==
    ping_resp # NoPing => ping_resp.code = 200 /\ ping_resp.status \in PingStatus

C20_SnapshotConsistent ==
    /\ ~snap_out.raised
    /\ snap_out.active_count = Cardinality(snap_out.running_jobs)


\* ------------------------------------------------- dispatch: claims
\* the handler call of r ended by raising
HandlerRaised(r) == outcome[r].kind \in {"raise", "raisejson"}
\* r has been answered
Answered(r) == pc[r] \in {"done", "stream"}

\* C24: for each admitted invocation the handler is called exactly once and
\* never retried; if it raises, the request is answered 500 with the fault's
\* message and the permit is released.
C24_HandlerFault500 ==
    \A r \in Req :
        /\ called[r] <= 1
        /\ admission[r] = "admitted" /\ Answered(r) => called[r] = 1
        /\ Answered(r) /\ HandlerRaised(r)
            => /\ resp[r] = [status |-> 500, error |-> "handler fault", value |-> 0]
               /\ ~permit[r]


\* what r is answered when its body is read while no entrypoint is registered:
\* 500 "No entrypoint defined", or 400 when the body is not JSON at all
NoEntrypointAnswers == {NoEntrypointResponse, InvalidJsonResponse}
\* while no entrypoint is registered nothing is admitted and nothing is called
C25_NoEntrypoint ==
    ~handlers.registered
        => /\ sem_value = SemCapacity /\ sem_waiters = <<>>
           /\ pool_running = {} /\ pool_queue = <<>>
           /\ \A r \in Req :
                /\ ~permit[r] /\ called[r] = 0 /\ admission[r] = "none"
                /\ pc[r] = "done" => resp[r] \in NoEntrypointAnswers
                /\ pc[r] = "body"
                    => /\ ENABLED (HandleInvocation(r) /\ resp'[r] = NoEntrypointResponse)
                       /\ ~ENABLED (HandleInvocation(r) /\ resp'[r] \notin NoEntrypointAnswers)
\* the failure is scoped to the request: the step that answers it changes
\* nothing but the request's own position and response
C25_RequestScoped ==
    \A r \in Req :
        resp[r] # NoEntrypointResponse /\ resp'[r] = NoEntrypointResponse
            => /\ pc' = [pc EXCEPT ![r] = "done"]
               /\ resp' = [resp EXCEPT ![r] = NoEntrypointResponse]
               /\ UNCHANGED <<handlers, sem_value, sem_waiters, pool_running, pool_queue,
                              permit, admission, called, outcome>>
               /\ UNCHANGED healthvars
\* once a handler is registered no request is answered "No entrypoint defined"
C25_ServedAfterRegistration ==
    handlers.registered
        => \A r \in Req : ~ENABLED (HandleInvocation(r) /\ resp'[r] = NoEntrypointResponse)

\* C25: while no entrypoint handler is registered, every invocation request
\* (debug mode off, body well-formed JSON) is answered 500 {"error": "No
\* entrypoint defined"} without acquiring a permit or changing any runtime
\* state; the failure is scoped to that request, and requests made after a
\* handler is registered are served normally.
C25_NoEntrypoint500 ==
    /\ [](C25_NoEntrypoint /\ C25_ServedAfterRegistration)
    /\ [][C25_RequestScoped]_vars

\* a request was answered "No entrypoint defined"; a handler was registered
\* afterwards and a later request got its result
C25_Witness ==
    /\ handlers.registered
    /\ \E r, q \in Req :
        /\ resp[r] = NoEntrypointResponse /\ called[r] = 0
        /\ resp[q].status = 200 /\ called[q] = 1 /\ pc[q] = "done"

\* this step takes r through admission into its handler call
Admitted(r) == admission[r] = "none" /\ admission'[r] = "admitted"
\* r's handler is called inline by this step, on the event loop
CalledInline(r) ==
    /\ called'[r] = called[r] + 1
    /\ r \notin pool_running' /\ \A i \in 1..Len(pool_queue') : pool_queue'[i] # r
\* r's handler call is handed to the executor by this step
SentToPool(r) ==
    r \in pool_running' \/ \E i \in 1..Len(pool_queue') : pool_queue'[i] = r

\* C29: a handler is executed inline on the event loop if and only if it is a
\* coroutine function; every other handler is executed on the worker pool and
\* never on the event loop; each call uses exactly one of the two modes.
C29_InlineIffCoroutine ==
    [][\A r \in Req :
        /\ Admitted(r) => /\ handlers.coop <=> CalledInline(r)
                          /\ ~handlers.coop <=> SentToPool(r)
                          /\ CalledInline(r) <=> ~SentToPool(r)
        /\ called'[r] # called[r] /\ ~Admitted(r)
              => r \in pool_running' /\ admission[r] = "admitted"]_vars

\* one handler call is suspended on the event loop while another, made after a
\* blocking handler was registered, runs on a worker thread
C29_Witness ==
    \E r, q \in Req :
        /\ pc[r] = "coro" /\ called[r] = 1 /\ r \notin pool_running
        /\ pc[q] = "executor" /\ called[q] = 1 /\ q \in pool_running

\* ------------------------------------- debug directives: claims
\* what a step of _handle_invocation leaves alone when it stays away from the
\* handler, the semaphore, the override and the registry
HandlerUntouched(r) ==
    /\ called' = called
    /\ admission' = admission
    /\ permit' = permit
    /\ args' = args
    /\ sem_value' = sem_value
    /\ sem_waiters' = sem_waiters
    /\ pool_running' = pool_running
    /\ pool_queue' = pool_queue
HealthUntouched ==
    /\ forced_ping_status' = forced_ping_status
    /\ active_tasks' = active_tasks
    /\ next_task' = next_task

\* C26: a request whose body is not well-formed JSON is answered 400 "Invalid
\* JSON" and never reaches the handler: no permit is taken, the handler is not
\* called, and the health override and the task registry are unchanged; this
\* holds with debug mode on and off.
C26_MalformedBody400 ==
    \A r \in DispatchReq :
        /\ payload[r] = MalformedBody /\ pc[r] = "body"
            => /\ ENABLED HandleInvocationDebug(r)
               /\ ~ENABLED (/\ HandleInvocationDebug(r)
                            /\ ~(/\ resp'[r] = InvalidJsonResponse
                                 /\ pc'[r] = "done"
                                 /\ debug_body'[r] = NoDebugBody
                                 /\ HandlerUntouched(r)
                                 /\ HealthUntouched))
        /\ payload[r] = MalformedBody /\ pc[r] \notin {"idle", "body"}
            => /\ resp[r] = InvalidJsonResponse
               /\ called[r] = 0
               /\ admission[r] = "none"
               /\ ~permit[r]
C26_Witness ==
    \E r \in DispatchReq :
        /\ payload[r] = MalformedBody
        /\ pc[r] = "done"
        /\ resp[r] = InvalidJsonResponse
        /\ handlers.registered
        /\ called[r] = 0
        /\ sem_value = SemCapacity

\* the payload of r carries the key _agent_core_app_action
CarriesDirective(r) == payload[r].ok /\ payload[r].action # "absent"

\* C27: with debug mode off, a payload that carries a directive never changes
\* the health override and is never answered with health or task data; it is
\* resolved like any other invocation (500 without an entrypoint, the handler
\* otherwise) and the handler receives the payload with the directive in it.
C27_DirectiveInertWithoutDebug ==
    \A r \in DispatchReq :
        ~debug /\ CarriesDirective(r) /\ pc[r] = "body"
            => /\ ENABLED HandleInvocationDebug(r)
               /\ ~ENABLED (/\ HandleInvocationDebug(r)
                            /\ ~(/\ HealthUntouched
                                 /\ statusvars' = statusvars
                                 /\ debug_body'[r] = NoDebugBody
                                 /\ resp'[r] \notin {UnknownActionResponse,
                                                     DebugFailedResponse}
                                 /\ IF Branch(TRUE) = "noentry"
                                    THEN resp'[r] = NoEntrypointResponse
                                    ELSE TRUE
                                 /\ IF Branch(TRUE) \in {"coro", "executor"}
                                    THEN /\ admission'[r] = "admitted"
                                         /\ args'[r].passed
                                         /\ args'[r].payload = payload[r]
                                    ELSE TRUE))
C27_Witness ==
    \E r \in DispatchReq :
        /\ ~debug
        /\ payload[r] = [ok |-> TRUE, action |-> "force_busy"]
        /\ pc[r] = "done"
        /\ called[r] = 1
        /\ args[r].payload.action = "force_busy"
        /\ forced_ping_status = None
        /\ debug_body[r] = NoDebugBody

\* the directive of r is none of the five names
NotAName(r) == CarriesDirective(r) /\ payload[r].action \notin TaskActions

ReachesHandler(r) ==
    /\ pc[r] = "body"
    /\ payload[r].ok
    /\ ~debug \/ NoDirective(payload[r].action)
    /\ Branch(TRUE) \in {"coro", "executor"}

\* C30: a handler whose second parameter is named context is called with
\* (payload, context); a handler with one parameter, or with a second parameter
\* of another name, is called with the payload alone; and so is a handler whose
\* signature cannot be inspected.
C30_ContextInjection ==
    \A r \in DispatchReq :
        ReachesHandler(r)
            => /\ ENABLED HandleInvocationDebug(r)
               /\ ~ENABLED (/\ HandleInvocationDebug(r)
                            /\ ~(/\ args'[r].passed
                                 /\ args'[r].payload = payload[r]
                                 /\ args'[r].context =
                                        CASE ~handler_sig.inspectable -> FALSE
                                          [] handler_sig.params = <<"payload", "context">>
                                                -> TRUE
                                          [] OTHER -> FALSE))
C30_Witness ==
    \E r \in DispatchReq :
        /\ handler_sig.params = <<"payload", "context">>
        /\ called[r] = 1
        /\ args[r].passed
        /\ args[r].context


\* ------------------------------------------- task registry: claims
\* threads between entering and leaving add_async_task
Adding == {t \in Threads : tpc[t] \in {"add", "added"}}

\* C21: under every interleaving of threads that call add_async_task, the id a
\* call draws is none of the ids in the registry and the store adds one entry
\* without replacing another; two calls never return the same id; and while no
\* task has been completed, the registry holds one entry for each call that
\* has stored its entry: exactly k entries after k calls have returned.
C21_FreshIdsNoLoss ==
    /\ \A t \in Threads :
          tpc[t] = "add"
              => /\ ENABLED AddAsyncTaskInsert(t)
                 /\ ~ENABLED (/\ AddAsyncTaskInsert(t)
                              /\ \/ targ'[t] \in Ids(active_tasks)
                                 \/ ~(active_tasks \subseteq active_tasks')
                                 \/ Cardinality(active_tasks')
                                        # Cardinality(active_tasks) + 1)
    /\ \A t, u \in Threads : t # u /\ tret[t] # 0 => tret[t] # tret[u]
    /\ completed = {}
          => /\ Cardinality(active_tasks)
                    = adds_done + Cardinality({t \in Threads : tpc[t] = "added"})
             /\ Adding = {} => Cardinality(active_tasks) = adds_done
C21_Witness ==
    /\ adds_done = MaxTasks
    /\ completed = {}
    /\ Cardinality(active_tasks) = MaxTasks
    /\ \A t \in Threads : tret[t] # 0 /\ tpc[t] = "idle"

\* C22: complete_async_task(id) returns True exactly when id is in the registry
\* at the moment the call, holding the lock, pops it, and then removes that
\* entry and no other; for an id that is absent it returns False and leaves the
\* registry as it is; of all the calls made for one registration, concurrent
\* ones included, at most one returns True.
C22_CompleteOnce ==
    /\ \A t \in Threads :
          tpc[t] = "complete"
              => /\ ENABLED CompleteAsyncTaskPop(t)
                 /\ ~ENABLED (/\ CompleteAsyncTaskPop(t)
                              /\ ~(/\ cret'[t] = IF targ[t] \in Ids(active_tasks)
                                                 THEN "true" ELSE "false"
                                   /\ active_tasks'
                                        = {x \in active_tasks : x.id # targ[t]}
                                   /\ targ[t] \notin Ids(active_tasks)
                                        => active_tasks' = active_tasks))
    /\ \A id \in TaskIds : found_true[id] <= 1
    /\ \A t \in Threads : tpc[t] = "completed" => cret[t] \in {"true", "false"}
C22_Witness ==
    \E t, u \in Threads :
        /\ t # u
        /\ targ[t] = targ[u]
        /\ cret[t] = "true"
        /\ cret[u] = "false"
        /\ tpc[t] = "idle"
        /\ tpc[u] = "idle"
        /\ found_true[targ[t]] = 1

\* ------------------------------------------------- async_task: claims
Running == {w \in Wrapped : wpc[w] = "running"}

\* C23: a function wrapped by async_task has exactly one entry in the registry
\* from the start of its wrapper until it returns or raises, and none after;
\* hence, with neither an override nor a resolver, get_current_ping_status
\* returns HEALTHY_BUSY while a wrapped function runs and HEALTHY when none does.
C23_TrackedWhileRunning ==
    /\ \A w \in Running : Cardinality({x \in active_tasks : x.id = wtask[w]}) = 1
    /\ \A w, v \in Running : w # v => wtask[w] # wtask[v]
    /\ Ids(active_tasks) = {wtask[w] : w \in Running}
    /\ forced_ping_status = None /\ ping_handler = NoPingHandler
          => /\ ENABLED GetCurrentPingStatus
             /\ ~ENABLED (/\ GetCurrentPingStatus
                          /\ status_out' # IF Running # {} THEN HEALTHY_BUSY
                                            ELSE HEALTHY)
C23_Witness ==
    /\ \E w \in Wrapped : wpc[w] = "raised"
    /\ \E w \in Wrapped : wpc[w] = "returned"
    /\ Running = {}
    /\ completed # {}
    /\ last_known_status = HEALTHY
    /\ status_out = HEALTHY

\* ------------------------------------------- frame conditions: claims
\* C33: the run of _handle_invocation that rejects an invocation changes
\* nothing but that request's own position, admission record and response:
\* the free-permit count, the waiters, the permits held, the worker pool and
\* its queue, the calls made, the task registry, the health override and the
\* timestamp of the last status change are as before.
C33_RejectionNoOp ==
    [][\A r \in Req :
          ReachesAdmission(r) /\ admission'[r] = "rejected"
              => /\ UNCHANGED <<sem_value, sem_waiters, permit, pool_running,
                                pool_queue, called, outcome, handlers>>
                 /\ UNCHANGED <<active_tasks, next_task, forced_ping_status,
                                last_status_update_time, last_known_status>>
                 /\ \A q \in Req \ {r} :
                        /\ pc'[q] = pc[q]
                        /\ resp'[q] = resp[q]
                        /\ admission'[q] = admission[q]]_vars
C33_Witness ==
    \E r \in Req :
        /\ admission[r] = "rejected"
        /\ pc[r] = "done"
        /\ sem_value = 0
        /\ Cardinality({q \in Req : permit[q]}) = SemCapacity
        /\ called[r] = 0


\* ------------------------------------------------ worker pool: claims
\* blocking handlers whose call was submitted to the pool and has not finished
Unfinished == {r \in Req : pc[r] = "executor" /\ outcome[r] = NoOutcome}

\* C35: every blocking handler that was submitted and has not finished is
\* running on a worker, so two that were admitted together run at the same
\* time; the pool never has more than 2 unfinished calls and its queue is
\* always empty; and while two handlers run, a ping can be answered and an
\* invocation whose body has been read is rejected, not admitted and not kept
\* waiting.
C35_BothInFlight ==
    /\ Unfinished = pool_running
    /\ Cardinality(Unfinished) <= MaxWorkers
    /\ pool_queue = <<>>
    /\ Cardinality(pool_running) = 2
          => /\ ENABLED HandlePing
             /\ \A q \in Req :
                   pc[q] = "body"
                       => /\ ENABLED (HandleInvocation(q) /\ admission'[q] = "rejected")
                          /\ ~ENABLED (/\ HandleInvocation(q)
                                       /\ \/ admission'[q] = "admitted"
                                          \/ pc'[q] = "waiting")
C35_Witness ==
    /\ Cardinality(pool_running) = 2
    /\ \A r \in pool_running : called[r] = 1 /\ permit[r]
    /\ \E q \in Req : admission[q] = "rejected" /\ pc[q] = "done"

\* ------------------------------------- stream order and modes: claims
\* the frame the transcoder emits for a taken item: the item's frame, or the
\* Error frame when serializing the item raises
EmittedFor(item) ==
    IF ConvertToSse(item).raised THEN ErrorFrame(ConvertToSse(item).fault)
    ELSE ConvertToSse(item).frame

C36_OneItemAtATime ==
    /\ cursor <= Len(frames)
    /\ tstate = "loop" => Len(frames) = cursor
    /\ \A i \in 1..cursor : i <= Len(frames) => frames[i] = EmittedFor(producer.items[i])
C36_StepByStep ==
    /\ cursor' \in {cursor, cursor + 1}
    /\ Len(frames') <= Len(frames) + 1
    /\ SubSeq(frames', 1, Len(frames)) = frames
    /\ cursor' = cursor + 1 => Len(frames) = cursor /\ Len(frames') = cursor'

\* C36: the transcoder asks the producer for an item only when every item it
\* took before has its frame emitted, takes one item per resumption and emits
\* that item's frame in the same resumption; frames are only appended, so the
\* i-th frame belongs to the i-th item.
C36_NoRunAhead == []C36_OneItemAtATime /\ [][C36_StepByStep]_vars
C36_Witness ==
    /\ tstate = "loop"
    /\ cursor = 2
    /\ Len(producer.items) > 2
    /\ Len(frames) = 2
    /\ producer.items[1] # producer.items[2]

\* one resumption of the transcoder of the given mode
Resume(mode, ts, cur) ==
    IF mode = "sync" THEN SyncStreamWithErrorHandling(ts, cur)
    ELSE StreamWithErrorHandling(ts, cur)
\* the frames a consumer gets that reads the transcoder of the given mode from
\* ts with cur items taken, in at most n resumptions
RECURSIVE FramesFrom(_, _, _, _)
FramesFrom(mode, ts, cur, n) ==
    IF n = 0 \/ ts = "finished" THEN <<>>
    ELSE LET s == Resume(mode, ts, cur)
         IN  s.emit \o FramesFrom(mode, s.tstate, s.cursor, n - 1)
AllFrames(mode) == FramesFrom(mode, "loop", 0, Len(producer.items) + 2)

\* C37: for every producer (items and fault) the synchronous and the
\* cooperative transcoder emit the same frames, resumption by resumption and
\* hence as a whole, and the stream that was read to its end is that sequence.
C37_ModesEquivalent ==
    /\ SyncStreamWithErrorHandling(tstate, cursor) = StreamWithErrorHandling(tstate, cursor)
    /\ AllFrames("sync") = AllFrames("async")
    /\ tstate = "finished" => frames = AllFrames("sync") /\ frames = AllFrames("async")
C37_Witness ==
    /\ tstate = "finished"
    /\ tmode = "sync"
    /\ producer.fault # NoFault
    /\ Len(producer.items) >= 2
    /\ frames = AllFrames("async")
    /\ Len(frames) = Len(producer.items) + 1

\* ------------------------------------------------ single values: claims
\* the handler of r returned a single value, neither a generator nor an async
\* generator
ReturnedSingleValue(r) == outcome[r].kind \in {"value", "object"}

\* C32: an admitted invocation whose handler returned a single value is
\* answered 200 with a body that decodes to that value.
C32_BodyIsValue ==
    \A r \in Req :
        admission[r] = "admitted" /\ ReturnedSingleValue(r) /\ pc[r] = "done"
            => resp[r] = [status |-> 200, error |-> "", value |-> outcome[r].v]

\* ------------------------------------------ directives served: claims
\* the override after the directive a has been served
OverrideAfter(a) ==
    CASE a = "force_healthy" -> HEALTHY
      [] a = "force_busy" -> HEALTHY_BUSY
      [] a = "clear_forced_status" -> None
      [] OTHER -> forced_ping_status
\* ping_status asks a resolver that returns an object which is no status
ResolverObject(a) ==
    /\ a = "ping_status"
    /\ forced_ping_status = None
    /\ ping_handler.kind = "object"

\* C34: with debug mode on, a request that carries one of the five directives
\* is answered by the debug path in any state, with both permits held and
\* without an entrypoint as well: the handler is not called, no permit is
\* taken and nothing is submitted to the pool; ping_status and job_status
\* leave the override and the registry as they are, and force_healthy,
\* force_busy and clear_forced_status change the override and nothing else.
C34_DirectiveShortCircuits ==
    \A r \in DebugReq :
        debug /\ payload[r].ok /\ payload[r].action \in TaskActions /\ pc[r] = "body"
            => LET a == payload[r].action IN
               /\ ENABLED HandleInvocationDebug(r)
               /\ ~ENABLED (/\ HandleInvocationDebug(r)
                            /\ ~(/\ HandlerUntouched(r)
                                 /\ outcome' = outcome
                                 /\ pc'[r] = "done"
                                 /\ resp'[r] = IF ResolverObject(a)
                                               THEN DebugFailedResponse
                                               ELSE DebugResponse
                                 /\ active_tasks' = active_tasks
                                 /\ next_task' = next_task
                                 /\ forced_ping_status' = OverrideAfter(a)
                                 /\ a \notin {"ping_status"}
                                        => statusvars' = statusvars))
C34_Witness ==
    \E r \in DebugReq :
        /\ payload[r].action = "force_busy"
        /\ pc[r] = "done"
        /\ resp[r] = DebugResponse
        /\ forced_ping_status = HEALTHY_BUSY
        /\ sem_value = 0
        /\ Cardinality({q \in Req : permit[q]}) = SemCapacity
        /\ called[r] = 0


\* the session id carried by the headers of request r: the value of its
\* session-id header, None when the header is absent or the headers unreadable
OwnSession(r) == IF headers[r].readable THEN headers[r].session ELSE None

\* the requests whose handler was called with a RequestContext
ObservesContext(r) == args[r].passed /\ args[r].context

\* C31: the session_id a handler observes in its RequestContext is the
\* session-id header of its own request (None when the header is absent or
\* unreadable), whatever the headers of the requests running concurrently
C31_OwnSessionId ==
    \A r \in PingReq :
        ObservesContext(r) => /\ context[r].built
                              /\ context[r].session_id = OwnSession(r)

\* two requests in flight at once, carrying different session ids, each
\* handler with the context of its own request
C31_Witness ==
    /\ \A r \in PingReq : ObservesContext(r) /\ pc[r] \in {"coro", "executor"}
    /\ context[1].session_id = "session-a"
    /\ context[2].session_id = "session-b"
    /\ headers[1].session = "session-a"
    /\ headers[2].session = "session-b"


\* poll_for_token is over: a token returned, the timeout error raised, or the
\* exception of the polling function passed on
PollerDone == ipc \in {"returned", "timeout", "raised"}

\* C38 as stated: the default token poller returns a token only when a poll
\* made before the polling timeout has elapsed returned it; otherwise it has
\* stopped with the timeout error
C38_AsStated ==
    ipc = "returned" => token_at < DEFAULT_POLLING_TIMEOUT_SECONDS

\* there is one sleep before each poll
C38_SleepBeforeEachPoll ==
    sleeps = IF ipc = "poll" THEN polls + 1 ELSE polls

\* every poll that returned before the poller went on, or gave up, returned
\* None; the response the poller returns is not None
C38_FirstReady ==
    /\ ipc \in {"check", "sleep", "poll", "timeout"} => poll_resp = None
    /\ ipc = "returned" => IsReady(poll_resp)

\* the timeout error is raised only once the timeout has elapsed, and the
\* last poll, the one that may return a token after the timeout, starts less
\* than one sleep after it
C38_TimeoutBound ==
    /\ ipc = "timeout" => wall - start_time >= DEFAULT_POLLING_TIMEOUT_SECONDS
    /\ ipc \in {"poll", "returned", "raised"} =>
            wall - start_time < DEFAULT_POLLING_TIMEOUT_SECONDS
                                + DEFAULT_POLLING_INTERVAL_SECONDS + MaxDelay
    /\ polls * DEFAULT_POLLING_INTERVAL_SECONDS <= wall - start_time

\* C38 (amended): the default token poller always terminates; it sleeps one
\* polling interval before each poll and returns the first response of the
\* polling function that is not None, even when that poll is made after the
\* timeout has elapsed; it raises the timeout error only when every poll
\* returned None and the timeout has elapsed at a test of the loop
C38_Terminates ==
    /\ []C38_SleepBeforeEachPoll
    /\ []C38_FirstReady
    /\ []C38_TimeoutBound
    /\ <>PollerDone

\* every poll returned None and the timeout error was raised
C38_Witness ==
    /\ ipc = "timeout"
    /\ polls >= DEFAULT_POLLING_TIMEOUT_SECONDS \div (DEFAULT_POLLING_INTERVAL_SECONDS + MaxDelay)
    /\ sleeps = polls
    /\ poll_resp = None


\* C39: forced re-authentication applies to the initial request only: the
\* initial request carries forceAuthentication exactly when get_token was
\* asked to force it, and no polling request carries it as true; when the
\* initial response carries an authorization URL (and no token), a callback
\* that is given has been called, once, before any poll is made; when the
\* initial response carries an access token no polling request is made
C39_ForceInitialOnly ==
    /\ forced_polls = 0
    /\ ipc \notin {"idle", "request"} =>
            initial_force = ForceOfInitial(force_authentication)
    /\ polls > 0 \/ ipc \in {"check", "sleep", "poll", "custom"} =>
            /\ HasAuthorizationUrl(response) /\ ~HasAccessToken(response)
            /\ notified = IF on_auth_url = "none" THEN 0 ELSE 1
            /\ req_force # "true"
    /\ HasAccessToken(response) => polls = 0 /\ sleeps = 0 /\ notified = 0

\* a forced get_token answered with an authorization URL: the callback was
\* called, the default poller polled more than once and returned a token
C39_Witness ==
    /\ force_authentication
    /\ initial_force = "true"
    /\ response = "authorizationUrl"
    /\ on_auth_url = "async"
    /\ notified = 1
    /\ polls > 1
    /\ ipc = "returned"
====
